---- MODULE Spec2Model ----
(***************************************************************************)
(* A model of the verylightsql storage engine: the pager, the node codec,  *)
(* the B+tree insert/split/root-growth algorithms and the cursor scan.     *)
(*                                                                         *)
(* A page buffer is modelled by the fields its bytes decode to (b0 = node  *)
(* type byte, b1 = is-root byte, w2 = parent word, w6 = cell/key count,    *)
(* w10 = next-leaf / right-child word, body = the live cells).  The Go     *)
(* cell arrays have a fixed capacity; the model keeps only the cells below *)
(* NumCells / NumKeys, the only ones the engine reads.                     *)
(***************************************************************************)
EXTENDS Integers, Sequences, FiniteSets, TLC

VARIABLES
    pager,        \* Table.pager: [fileLength, pages, numPages]
    rootPageNum,  \* Table.rootPageNum
    file,         \* the database file: the sequence of pages on disk
    isOpen,       \* TRUE between OpenDatabase and Close
    result,       \* what the last call returned: [op, err, known, rows]
    okCount,      \* history: how many Insert calls returned nil, per key
    stored        \* history: the row of the first Insert that returned nil, per key

vars == <<pager, rootPageNum, file, isOpen, result, okCount, stored>>

----------------------------------------------------------------------------
(* Bounds of the model *)

\* Spec and SpecPersist insert rows with pairwise distinct IDs in 0..MaxID,
\* in any order.
MaxID == 9

\* SpecAny inserts any row with an ID in 0..MaxAnyID, stored IDs included.
MaxAnyID == 5

\* SpecAny: Insert is called with a stored ID until MaxDupAccepted such calls
\* have returned nil.
MaxDupAccepted == 1

\* SpecReopen inserts rows with the IDs 0..MaxReopenID, in any session.
MaxReopenID == 6

\* SpecFull inserts rows with the IDs 0..MaxSeqID in two ascending runs,
\* enough of them to use every page the pager has.
MaxSeqID == 112

\* Leaf capacity.  The source computes 13 from the page and row sizes
\* (btree.go:124); the model scales it down so that leaf splits, internal
\* splits at and below the root, and root growth all happen within the ID
\* bounds.  The split counts are derived from it as in the source.
LeafNodeMaxCells == 2

----------------------------------------------------------------------------
(* Program constants *)

pageSize == 4096
tableMaxPages == 100
InternalNodeMaxKeys == 3
NodeTypeInternal == 0
NodeTypeLeaf == 1

LeafNodeRightSplitCount == (LeafNodeMaxCells + 1) \div 2
LeafNodeLeftSplitCount == (LeafNodeMaxCells + 1) - LeafNodeRightSplitCount
InternalNodeRightSplitCount == (InternalNodeMaxKeys + 1) \div 2
InternalNodeLeftSplitCount == (InternalNodeMaxKeys + 1) - InternalNodeRightSplitCount - 1

\* uint32(row.ID): row IDs in the model are 0..MaxID, where the conversion
\* from int32 keeps the value.
KeyOf(id) == id

----------------------------------------------------------------------------
(* Rows *)

\* The Row struct.  The e-mail is a function of the ID so that rows of
\* different keys differ in a payload field as well.
EmailOf(id) == IF id % 2 = 0 THEN "even@x" ELSE "odd@x"

MkRow(id, name) == [ID |-> id, Username |-> name, Email |-> EmailOf(id)]

\* the rows Spec and SpecPersist insert
Rows == {MkRow(id, "user") : id \in 0..MaxID}

\* the rows SpecAny inserts: two rows per ID
AnyRows == {MkRow(id, name) : id \in 0..MaxAnyID, name \in {"user", "newuser"}}

AllIDs == 0..(IF MaxSeqID > MaxID /\ MaxSeqID > MaxAnyID THEN MaxSeqID
              ELSE IF MaxID > MaxAnyID THEN MaxID ELSE MaxAnyID)

----------------------------------------------------------------------------
(* Node codec *)

NewLeafNode ==
    [NodeType |-> NodeTypeLeaf, IsRoot |-> 0, Parent |-> 0,
     NumCells |-> 0, NextLeaf |-> 0, Cells |-> <<>>]

NewInternalNode ==
    [NodeType |-> NodeTypeInternal, IsRoot |-> 0, Parent |-> 0,
     NumKeys |-> 0, RightChild |-> 0, Cells |-> <<>>]

\* make([]byte, pageSize): every byte zero
ZeroPage == [b0 |-> 0, b1 |-> 0, w2 |-> 0, w6 |-> 0, w10 |-> 0, body |-> <<>>]

SerializeLeaf(n) ==
    [b0 |-> n.NodeType, b1 |-> n.IsRoot, w2 |-> n.Parent,
     w6 |-> n.NumCells, w10 |-> n.NextLeaf,
     body |-> SubSeq(n.Cells, 1, n.NumCells)]

SerializeInternal(n) ==
    [b0 |-> n.NodeType, b1 |-> n.IsRoot, w2 |-> n.Parent,
     w6 |-> n.NumKeys, w10 |-> n.RightChild,
     body |-> SubSeq(n.Cells, 1, n.NumKeys)]

DeserializeLeafNode(page) ==
    [NodeType |-> page.b0, IsRoot |-> page.b1, Parent |-> page.w2,
     NumCells |-> page.w6, NextLeaf |-> page.w10, Cells |-> page.body]

DeserializeInternalNode(page) ==
    [NodeType |-> page.b0, IsRoot |-> page.b1, Parent |-> page.w2,
     NumKeys |-> page.w6, RightChild |-> page.w10, Cells |-> page.body]

GetNodeTypeFromPage(page) == page.b0

\* Cells[i] of the Go arrays (0-based)
Cell(n, i) == n.Cells[i + 1]

\* A GetMaxKey that returns the key of the first cell
LeafGetMaxKey_FirstKey(n) == Cell(n, 0).Key

\* LeafNode.GetMaxKey / InternalNode.GetMaxKey.  Both panic on an empty
\* node: GetMaxKeyPanics tells when, and callers test it first.
LeafGetMaxKey(n) == Cell(n, n.NumCells - 1).Key

InternalGetMaxKey(n) == Cell(n, n.NumKeys - 1).Key

GetMaxKeyPanics(page) ==
    IF GetNodeTypeFromPage(page) = NodeTypeLeaf
    THEN DeserializeLeafNode(page).NumCells = 0
    ELSE DeserializeInternalNode(page).NumKeys = 0

GetMaxKeyFromPage(page) ==
    IF GetNodeTypeFromPage(page) = NodeTypeLeaf
    THEN LeafGetMaxKey(DeserializeLeafNode(page))
    ELSE InternalGetMaxKey(DeserializeInternalNode(page))

\* InternalNode.FindChild: the binary search of the source, i and j as there
RECURSIVE FindChildLoop(_, _, _, _)
FindChildLoop(n, key, i, j) ==
    IF i = j THEN i
    ELSE LET mid == (i + j) \div 2
             midKey == Cell(n, mid).Key
         IN IF key < midKey
            THEN FindChildLoop(n, key, i, mid)
            ELSE FindChildLoop(n, key, mid + 1, j)

FindChild(n, key) == FindChildLoop(n, key, 0, n.NumKeys)

\* InternalNode.GetChild panics for an index above NumKeys: GetChildPanics
\* tells when, and callers test it first.
GetChildPanics(n, index) == index > n.NumKeys

\* A GetChild that never returns RightChild
GetChild_LastCellChild(n, index) ==
    IF index = n.NumKeys THEN Cell(n, n.NumKeys - 1).Child
    ELSE Cell(n, index).Child

\* InternalNode.GetChild
GetChild(n, index) ==
    IF index = n.NumKeys THEN n.RightChild ELSE Cell(n, index).Child

\* InternalNode.FindChildByPage.  It panics when the page is not a child:
\* FindChildByPagePanics tells when, and callers test it first.
FindChildByPagePanics(n, childPageNum) ==
    /\ \A i \in 0..(n.NumKeys - 1) : Cell(n, i).Child # childPageNum
    /\ n.RightChild # childPageNum

FindChildByPage(n, childPageNum) ==
    IF \E i \in 0..(n.NumKeys - 1) : Cell(n, i).Child = childPageNum
    THEN CHOOSE i \in 0..(n.NumKeys - 1) :
            /\ Cell(n, i).Child = childPageNum
            /\ \A j \in 0..(i - 1) : Cell(n, j).Child # childPageNum
    ELSE n.NumKeys

----------------------------------------------------------------------------
(* Pager.  The operators take and return an execution state                *)
(*   s = [pages, numPages, fileLength, err, replaced]                      *)
(* pages maps the page numbers that have a buffer (p.pages[n] # nil) to    *)
(* the buffer; err is "ok" until a call returns an error or panics;        *)
(* replaced is the set of the page numbers whose buffer the call has put   *)
(* aside for another slice.                                                *)

Put(f, k, v) == IF k \in DOMAIN f THEN [f EXCEPT ![k] = v] ELSE f @@ (k :> v)

Fail(s, e) == [s EXCEPT !.err = e]

\* x := e followed by the statements that use x: the body of the one-point
\* function f with x the value of e
With(f) == f[CHOOSE x \in DOMAIN f : TRUE]

\* p.file.ReadAt into a zeroed buffer: bytes past the end of file stay zero
ReadAt(pageNum) ==
    IF pageNum < Len(file) THEN file[pageNum + 1] ELSE ZeroPage

getPage(s, pageNum) ==
    IF pageNum >= tableMaxPages THEN Fail(s, "oob")
    ELSE IF pageNum \in DOMAIN s.pages THEN s
    ELSE LET numPages == IF s.fileLength % pageSize # 0
                         THEN s.fileLength \div pageSize + 1
                         ELSE s.fileLength \div pageSize
             buf == IF pageNum <= numPages THEN ReadAt(pageNum) ELSE ZeroPage
         IN [s EXCEPT !.pages = Put(s.pages, pageNum, buf),
                      !.numPages = IF pageNum >= s.numPages THEN pageNum + 1 ELSE @]

\* p.pages[pageNum] = page, page a new slice: the buffer that the pager had
\* for pageNum, if it had one, is its buffer no longer
SlotAssigned(s, pageNum) ==
    IF pageNum \in DOMAIN s.pages THEN s.replaced \cup {pageNum} ELSE s.replaced

saveLeafNode(s, pageNum, node) ==
    IF pageNum >= tableMaxPages THEN Fail(s, "oob")
    ELSE [s EXCEPT !.pages = Put(s.pages, pageNum, SerializeLeaf(node)),
                   !.replaced = SlotAssigned(s, pageNum),
                   !.numPages = IF pageNum >= s.numPages THEN pageNum + 1 ELSE @]

saveInternalNode(s, pageNum, node) ==
    IF pageNum >= tableMaxPages THEN Fail(s, "oob")
    ELSE [s EXCEPT !.pages = Put(s.pages, pageNum, SerializeInternal(node)),
                   !.replaced = SlotAssigned(s, pageNum),
                   !.numPages = IF pageNum >= s.numPages THEN pageNum + 1 ELSE @]

getUnusedPageNum(s) == s.numPages

----------------------------------------------------------------------------
(* B+tree engine *)

SetCell(cells, i, c) == [cells EXCEPT ![i + 1] = c]

\* updateChildParent with the write of the parent field left out
updateChildParent_NoWrite(s, childPageNum, newParentPageNum) ==
    getPage(s, childPageNum)

\* Table.updateChildParent
updateChildParent(s, childPageNum, newParentPageNum) ==
    With([s1 \in {getPage(s, childPageNum)} |->
    IF s1.err # "ok" THEN s1 ELSE
    LET childPage == s1.pages[childPageNum]
    IN IF GetNodeTypeFromPage(childPage) = NodeTypeLeaf
       THEN saveLeafNode(s1, childPageNum,
                [DeserializeLeafNode(childPage) EXCEPT !.Parent = newParentPageNum])
       ELSE saveInternalNode(s1, childPageNum,
                [DeserializeInternalNode(childPage) EXCEPT !.Parent = newParentPageNum])
    ])

\* for i := 0; i <= node.NumKeys; i++ { updateChildParent(node.GetChild(i), parent) }
RECURSIVE updateChildrenParent(_, _, _, _)
updateChildrenParent(s, node, i, parentPageNum) ==
    IF s.err # "ok" \/ i > node.NumKeys THEN s
    ELSE IF GetChildPanics(node, i) THEN Fail(s, "panic")
    ELSE updateChildrenParent(
             updateChildParent(s, GetChild(node, i), parentPageNum),
             node, i + 1, parentPageNum)

\* Table.findKeyInLeaf: the cursor [s, pageNum, cellNum] of the binary search
RECURSIVE LeafSearch(_, _, _, _)
LeafSearch(node, key, i, j) ==
    IF i = j THEN i
    ELSE LET mid == (i + j) \div 2
             midKey == Cell(node, mid).Key
         IN IF key = midKey THEN mid
            ELSE IF key < midKey THEN LeafSearch(node, key, i, mid)
            ELSE LeafSearch(node, key, mid + 1, j)

\* A findKeyInLeaf that always returns the position after the last cell
findKeyInLeaf_AfterLastCell(s, pageNum, key) ==
    With([s1 \in {getPage(s, pageNum)} |->
    IF s1.err # "ok" THEN [s |-> s1, pageNum |-> pageNum, cellNum |-> 0] ELSE
    LET node == DeserializeLeafNode(s1.pages[pageNum])
    IN [s |-> s1, pageNum |-> pageNum, cellNum |-> node.NumCells]
    ])

\* Table.findKeyInLeaf
findKeyInLeaf(s, pageNum, key) ==
    With([s1 \in {getPage(s, pageNum)} |->
    IF s1.err # "ok" THEN [s |-> s1, pageNum |-> pageNum, cellNum |-> 0] ELSE
    LET node == DeserializeLeafNode(s1.pages[pageNum])
    IN [s |-> s1, pageNum |-> pageNum,
        cellNum |-> LeafSearch(node, key, 0, node.NumCells)]
    ])

\* Table.findKeyInInternal.  depth counts the levels still allowed below
\* this node; a descent longer than the page array is a cycle ("diverge").
RECURSIVE findKeyInInternal(_, _, _, _)
findKeyInInternal(s, pageNum, key, depth) ==
    With([s1 \in {getPage(s, pageNum)} |->
    IF s1.err # "ok" THEN [s |-> s1, pageNum |-> pageNum, cellNum |-> 0]
    ELSE IF depth = 0
    THEN [s |-> Fail(s1, "diverge"), pageNum |-> pageNum, cellNum |-> 0] ELSE
    LET node == DeserializeInternalNode(s1.pages[pageNum])
        childIndex == FindChild(node, key)
        childPageNum == GetChild(node, childIndex)
    IN IF GetChildPanics(node, childIndex)
       THEN [s |-> Fail(s1, "panic"), pageNum |-> pageNum, cellNum |-> 0] ELSE
    With([s2 \in {getPage(s1, childPageNum)} |->
    IF s2.err # "ok"
    THEN [s |-> s2, pageNum |-> childPageNum, cellNum |-> 0]
    ELSE IF GetNodeTypeFromPage(s2.pages[childPageNum]) = NodeTypeLeaf
    THEN findKeyInLeaf(s2, childPageNum, key)
    ELSE findKeyInInternal(s2, childPageNum, key, depth - 1)
    ])])

\* Table.findKey
findKey(s, root, key) ==
    With([s1 \in {getPage(s, root)} |->
    IF s1.err # "ok" THEN [s |-> s1, pageNum |-> root, cellNum |-> 0]
    ELSE IF GetNodeTypeFromPage(s1.pages[root]) = NodeTypeLeaf
    THEN findKeyInLeaf(s1, root, key)
    ELSE findKeyInInternal(s1, root, key, tableMaxPages)
    ])

\* The copy of the old root with the is-root byte left as it was
CopyOfOldRoot_StillRoot(oldRootPage) == oldRootPage

\* createNewRoot: the copy of the old root that becomes the left child,
\* leftChildPage[1] = 0
CopyOfOldRoot(oldRootPage) == [oldRootPage EXCEPT !.b1 = 0]

\* Table.createNewRoot
createNewRoot(s, root, rightChildPageNum) ==
    With([s1 \in {getPage(s, root)} |->
    IF s1.err # "ok" THEN s1 ELSE
    With([s2 \in {getPage(s1, rightChildPageNum)} |->
    IF s2.err # "ok" THEN s2 ELSE
    LET oldRootPage == s1.pages[root]
        oldNodeType == GetNodeTypeFromPage(oldRootPage)
        rightChildPage == s2.pages[rightChildPageNum]
        leftChildPageNum == getUnusedPageNum(s2)
        leftChildPage == CopyOfOldRoot(oldRootPage)
    IN \* t.pager.pages[leftChildPageNum] = ...: an index past the array panics
       IF leftChildPageNum >= tableMaxPages THEN Fail(s2, "panic") ELSE
    With([s3 \in {[s2 EXCEPT !.pages = Put(s2.pages, leftChildPageNum, leftChildPage),
                             !.replaced = SlotAssigned(s2, leftChildPageNum),
                             !.numPages = IF leftChildPageNum >= s2.numPages
                                          THEN leftChildPageNum + 1 ELSE @]} |->
    IF GetMaxKeyPanics(leftChildPage) THEN Fail(s3, "panic") ELSE
    LET leftMaxKey == GetMaxKeyFromPage(leftChildPage)
        newRoot == [NewInternalNode EXCEPT
                        !.IsRoot = 1, !.NumKeys = 1,
                        !.Cells = <<[Child |-> leftChildPageNum, Key |-> leftMaxKey]>>,
                        !.RightChild = rightChildPageNum]
        leftNode == [DeserializeInternalNode(leftChildPage) EXCEPT !.Parent = root]
    IN
    With([s4 \in {saveInternalNode(s3, root, newRoot)} |->
    IF s4.err # "ok" THEN s4 ELSE
    With([s5 \in {IF oldNodeType = NodeTypeLeaf
                  THEN saveLeafNode(s4, leftChildPageNum,
                           [DeserializeLeafNode(leftChildPage) EXCEPT !.Parent = root])
                  ELSE updateChildrenParent(
                           saveInternalNode(s4, leftChildPageNum, leftNode),
                           leftNode, 0, leftChildPageNum)} |->
    IF s5.err # "ok" THEN s5
    ELSE IF GetNodeTypeFromPage(rightChildPage) = NodeTypeLeaf
    THEN saveLeafNode(s5, rightChildPageNum,
             [DeserializeLeafNode(rightChildPage) EXCEPT !.Parent = root])
    ELSE saveInternalNode(s5, rightChildPageNum,
             [DeserializeInternalNode(rightChildPage) EXCEPT !.Parent = root])
    ])])])])])

\* A split that has returned with execution state s
Returns(s) == [s |-> s, insert |-> FALSE, parentPageNum |-> 0, newPageNum |-> 0]

\* A split that goes on with internalNodeInsert on the page two levels up
CallsParentInsert_OnGrandparent(s, parentPageNum, newPageNum) ==
    [s |-> s, insert |-> TRUE,
     parentPageNum |-> DeserializeInternalNode(s.pages[parentPageNum]).Parent,
     newPageNum |-> newPageNum]

\* A split that goes on, in execution state s, with
\* internalNodeInsert(parentPageNum, newPageNum)
CallsParentInsert(s, parentPageNum, newPageNum) ==
    [s |-> s, insert |-> TRUE, parentPageNum |-> parentPageNum,
     newPageNum |-> newPageNum]

\* A parent that keeps the key it had for the split child
ParentWithChildKey_KeepsStaleKey(parentNode, oldChildIndex, maxKey) ==
    parentNode

\* parentNode.Cells[oldChildIndex].Key = the max key of the split child
ParentWithChildKey(parentNode, oldChildIndex, maxKey) ==
    [parentNode EXCEPT
        !.Cells = SetCell(@, oldChildIndex,
                      [Child |-> Cell(parentNode, oldChildIndex).Child,
                       Key |-> maxKey])]

\* A parent that takes one more key before it is split
InternalNodeIsFull_OneKeyLate(parentNode) ==
    parentNode.NumKeys > InternalNodeMaxKeys

\* internalNodeInsert: the parent holds all the keys it can, it must be split
InternalNodeIsFull(parentNode) ==
    parentNode.NumKeys >= InternalNodeMaxKeys

\* A parent that always takes the new child as its rightmost child
ParentWithNewChild_AlwaysRightmost(parentNode, childPageNum, childMaxKey, rightChildMaxKey) ==
    [parentNode EXCEPT
        !.Cells = Append(parentNode.Cells,
                         [Child |-> parentNode.RightChild,
                          Key |-> rightChildMaxKey]),
        !.RightChild = childPageNum,
        !.NumKeys = @ + 1]

\* internalNodeInsert: the parent with one more child
ParentWithNewChild(parentNode, childPageNum, childMaxKey, rightChildMaxKey) ==
    LET index == FindChild(parentNode, childMaxKey)
    IN IF childMaxKey > rightChildMaxKey
       THEN [parentNode EXCEPT
               !.Cells = Append(parentNode.Cells,
                                [Child |-> parentNode.RightChild,
                                 Key |-> rightChildMaxKey]),
               !.RightChild = childPageNum,
               !.NumKeys = @ + 1]
       ELSE [parentNode EXCEPT
               \* cells [index, NumKeys) move one slot right
               !.Cells = SubSeq(parentNode.Cells, 1, index)
                         \o <<[Child |-> childPageNum, Key |-> childMaxKey]>>
                         \o SubSeq(parentNode.Cells, index + 1, parentNode.NumKeys),
               !.NumKeys = @ + 1]

RECURSIVE internalNodeInsert(_, _, _, _)
RECURSIVE internalNodeSplitAndInsert(_, _, _, _)

\* Table.internalNodeInsert
internalNodeInsert(s, root, parentPageNum, childPageNum) ==
    With([s1 \in {getPage(s, parentPageNum)} |->
    IF s1.err # "ok" THEN s1 ELSE
    LET parentNode == DeserializeInternalNode(s1.pages[parentPageNum])
    IN IF InternalNodeIsFull(parentNode)
       THEN internalNodeSplitAndInsert(s1, root, parentPageNum, childPageNum) ELSE
    With([s2 \in {getPage(s1, childPageNum)} |->
    IF s2.err # "ok" THEN s2
    ELSE IF GetMaxKeyPanics(s2.pages[childPageNum]) THEN Fail(s2, "panic") ELSE
    With([s3 \in {getPage(s2, parentNode.RightChild)} |->
    IF s3.err # "ok" THEN s3
    ELSE IF GetMaxKeyPanics(s3.pages[parentNode.RightChild]) THEN Fail(s3, "panic") ELSE
    LET childMaxKey == GetMaxKeyFromPage(s2.pages[childPageNum])
        rightChildMaxKey == GetMaxKeyFromPage(s3.pages[parentNode.RightChild])
        newParent == ParentWithNewChild(parentNode, childPageNum,
                                        childMaxKey, rightChildMaxKey)
    IN saveInternalNode(s3, parentPageNum, newParent)
    ])])])

\* A page number that is handed out and not reserved
ReservePage_NotReserved(s, pageNum) == s

\* t.pager.numPages = pageNum + 1 // Reserve this page
ReservePage(s, pageNum) == [s EXCEPT !.numPages = pageNum + 1]

\* Table.internalNodeSplitAndInsert up to its last statement, the call of
\* internalNodeInsert for the new sibling
internalNodeSplitUpToParentInsert(s, root, oldPageNum, childPageNum) ==
    With([s1 \in {getPage(s, oldPageNum)} |->
    IF s1.err # "ok" THEN Returns(s1) ELSE
    With([s2 \in {getPage(s1, childPageNum)} |->
    IF s2.err # "ok" THEN Returns(s2)
    ELSE IF GetMaxKeyPanics(s2.pages[childPageNum])
    THEN Returns(Fail(s2, "panic")) ELSE
    LET oldNode == DeserializeInternalNode(s1.pages[oldPageNum])
        childMaxKey == GetMaxKeyFromPage(s2.pages[childPageNum])
        splittingRoot == oldNode.IsRoot # 0
        oldNumKeys == oldNode.NumKeys
        oldRightChild == oldNode.RightChild
        oldParentPageNum == oldNode.Parent
    IN
    With([s3 \in {getPage(s2, oldRightChild)} |->
    IF s3.err # "ok" THEN Returns(s3)
    ELSE IF GetMaxKeyPanics(s3.pages[oldRightChild])
    THEN Returns(Fail(s3, "panic")) ELSE
    LET curRightChildMaxKey == GetMaxKeyFromPage(s3.pages[oldRightChild])
        newChildIndex == IF childMaxKey > curRightChildMaxKey
                         THEN oldNumKeys + 1
                         ELSE FindChild(oldNode, childMaxKey)
        \* the old cells and the new one in sorted order; the old right
        \* child becomes a cell when the new child is the rightmost
        allCells ==
            IF newChildIndex = oldNumKeys + 1
            THEN Append(oldNode.Cells,
                        [Child |-> oldRightChild, Key |-> curRightChildMaxKey])
            ELSE SubSeq(oldNode.Cells, 1, newChildIndex)
                 \o <<[Child |-> childPageNum, Key |-> childMaxKey]>>
                 \o SubSeq(oldNode.Cells, newChildIndex + 1, oldNumKeys)
        allRightChild == IF newChildIndex = oldNumKeys + 1
                         THEN childPageNum ELSE oldRightChild
        newPageNum == getUnusedPageNum(s3)
    IN
    With([all \in {[cells |-> allCells, rightChild |-> allRightChild]} |->
    LET parentKey == all.cells[InternalNodeLeftSplitCount + 1].Key
        leftCells == SubSeq(all.cells, 1, InternalNodeLeftSplitCount)
        leftRightChild == all.cells[InternalNodeLeftSplitCount + 1].Child
        rightCells == SubSeq(all.cells, InternalNodeLeftSplitCount + 2,
                             InternalNodeLeftSplitCount + 1 + InternalNodeRightSplitCount)
    IN
    With([s4 \in {ReservePage(s3, newPageNum)} |->
    IF splittingRoot
    THEN
      LET leftChildPageNum == getUnusedPageNum(s4)
          leftNode == [NewInternalNode EXCEPT
                         !.NumKeys = InternalNodeLeftSplitCount,
                         !.Cells = leftCells,
                         !.RightChild = leftRightChild,
                         !.Parent = root]
          newNode == [NewInternalNode EXCEPT
                         !.NumKeys = InternalNodeRightSplitCount,
                         !.Cells = rightCells,
                         !.RightChild = all.rightChild,
                         !.Parent = root]
          newRoot == [NewInternalNode EXCEPT
                         !.IsRoot = 1, !.NumKeys = 1,
                         !.Cells = <<[Child |-> leftChildPageNum, Key |-> parentKey]>>,
                         !.RightChild = newPageNum]
      IN
      With([s5 \in {ReservePage(s4, leftChildPageNum)} |->
      With([s6 \in {saveInternalNode(s5, root, newRoot)} |->
      IF s6.err # "ok" THEN Returns(s6) ELSE
      With([s7 \in {saveInternalNode(s6, leftChildPageNum, leftNode)} |->
      IF s7.err # "ok" THEN Returns(s7) ELSE
      With([s8 \in {saveInternalNode(s7, newPageNum, newNode)} |->
      With([s9 \in {updateChildrenParent(s8, leftNode, 0, leftChildPageNum)} |->
      Returns(updateChildrenParent(s9, newNode, 0, newPageNum))
      ])])])])])
    ELSE
      LET newNode == [NewInternalNode EXCEPT
                         !.Parent = oldParentPageNum,
                         !.NumKeys = InternalNodeRightSplitCount,
                         !.Cells = rightCells,
                         !.RightChild = all.rightChild]
          oldNode2 == [oldNode EXCEPT
                         !.NumKeys = InternalNodeLeftSplitCount,
                         !.Cells = leftCells,
                         !.RightChild = leftRightChild]
      IN
      With([s5 \in {saveInternalNode(s4, oldPageNum, oldNode2)} |->
      IF s5.err # "ok" THEN Returns(s5) ELSE
      With([s6 \in {saveInternalNode(s5, newPageNum, newNode)} |->
      With([s7 \in {updateChildrenParent(s6, newNode, 0, newPageNum)} |->
      With([s8 \in {updateChildrenParent(s7, oldNode2, 0, oldPageNum)} |->
      IF s8.err # "ok" THEN Returns(s8) ELSE
      With([s9 \in {getPage(s8, oldParentPageNum)} |->
      IF s9.err # "ok" THEN Returns(s9) ELSE
      LET parentNode == DeserializeInternalNode(s9.pages[oldParentPageNum])
          oldChildIndex == FindChildByPage(parentNode, oldPageNum)
          parentNode2 ==
              IF oldChildIndex < parentNode.NumKeys
              THEN ParentWithChildKey(parentNode, oldChildIndex,
                                      GetMaxKeyFromPage(s9.pages[oldPageNum]))
              ELSE parentNode
      IN IF FindChildByPagePanics(parentNode, oldPageNum)
         THEN Returns(Fail(s9, "panic"))
         ELSE IF oldChildIndex < parentNode.NumKeys
                 /\ GetMaxKeyPanics(s9.pages[oldPageNum])
         THEN Returns(Fail(s9, "panic")) ELSE
      With([s10 \in {saveInternalNode(s9, oldParentPageNum, parentNode2)} |->
      IF s10.err # "ok" THEN Returns(s10)
      ELSE CallsParentInsert(s10, oldParentPageNum, newPageNum)
      ])])])])])])
    ])])])])])

\* Table.internalNodeSplitAndInsert
internalNodeSplitAndInsert(s, root, oldPageNum, childPageNum) ==
    With([r \in {internalNodeSplitUpToParentInsert(s, root, oldPageNum, childPageNum)} |->
    IF r.insert
    THEN internalNodeInsert(r.s, root, r.parentPageNum, r.newPageNum)
    ELSE r.s
    ])

----------------------------------------------------------------------------
(* Cursor.  A cursor is [s, pageNum, cellNum] while a call runs. *)

\* The cells of a full leaf with the new cell after all of them
LeafAllCells_NewCellLast(oldNode, cellNum, key, value) ==
    Append(SubSeq(oldNode.Cells, 1, oldNode.NumCells),
           [Key |-> key, Value |-> value])

\* The cells of a full leaf with the new cell at index cellNum
LeafAllCells(oldNode, cellNum, key, value) ==
    SubSeq(oldNode.Cells, 1, cellNum)
    \o <<[Key |-> key, Value |-> value]>>
    \o SubSeq(oldNode.Cells, cellNum + 1, oldNode.NumCells)

\* The new leaf of a split, not linked to the old leaf's successor
SplitNewLeaf_NoNextLeaf(oldNode, cellNum, key, value) ==
    [NewLeafNode EXCEPT
        !.Parent = oldNode.Parent,
        !.Cells = SubSeq(LeafAllCells(oldNode, cellNum, key, value),
                         LeafNodeLeftSplitCount + 1,
                         LeafNodeLeftSplitCount + LeafNodeRightSplitCount),
        !.NumCells = LeafNodeRightSplitCount]

\* SplitAndInsert: the new (right) leaf
SplitNewLeaf(oldNode, cellNum, key, value) ==
    [NewLeafNode EXCEPT
        !.Parent = oldNode.Parent,
        !.NextLeaf = oldNode.NextLeaf,
        !.Cells = SubSeq(LeafAllCells(oldNode, cellNum, key, value),
                         LeafNodeLeftSplitCount + 1,
                         LeafNodeLeftSplitCount + LeafNodeRightSplitCount),
        !.NumCells = LeafNodeRightSplitCount]

\* An old leaf that loses the last of its cells
SplitOldLeaf_DropsLastCell(oldNode, newPageNum, cellNum, key, value) ==
    [oldNode EXCEPT
        !.NextLeaf = newPageNum,
        !.Cells = SubSeq(LeafAllCells(oldNode, cellNum, key, value),
                         1, LeafNodeLeftSplitCount - 1),
        !.NumCells = LeafNodeLeftSplitCount - 1]

\* SplitAndInsert: the old (left) leaf after the split
SplitOldLeaf(oldNode, newPageNum, cellNum, key, value) ==
    [oldNode EXCEPT
        !.NextLeaf = newPageNum,
        !.Cells = SubSeq(LeafAllCells(oldNode, cellNum, key, value),
                         1, LeafNodeLeftSplitCount),
        !.NumCells = LeafNodeLeftSplitCount]

\* Cursor.SplitAndInsert up to its last statement, the call of
\* internalNodeInsert for the new leaf
SplitUpToParentInsert(c, root, key, value) ==
    With([s1 \in {getPage(c.s, c.pageNum)} |->
    IF s1.err # "ok" THEN Returns(s1) ELSE
    LET oldNode == DeserializeLeafNode(s1.pages[c.pageNum])
        newPageNum == getUnusedPageNum(s1)
        newNode == SplitNewLeaf(oldNode, c.cellNum, key, value)
        oldNode2 == SplitOldLeaf(oldNode, newPageNum, c.cellNum, key, value)
        parentPageNum == oldNode2.Parent
    IN
    With([s2 \in {saveLeafNode(s1, c.pageNum, oldNode2)} |->
    IF s2.err # "ok" THEN Returns(s2) ELSE
    With([s3 \in {saveLeafNode(s2, newPageNum, newNode)} |->
    IF s3.err # "ok" THEN Returns(s3)
    ELSE IF oldNode2.IsRoot # 0
    THEN Returns(createNewRoot(s3, root, newPageNum)) ELSE
    With([s4 \in {getPage(s3, parentPageNum)} |->
    IF s4.err # "ok" THEN Returns(s4) ELSE
    LET parentNode == DeserializeInternalNode(s4.pages[parentPageNum])
        oldChildIndex == FindChildByPage(parentNode, c.pageNum)
        parentNode2 ==
            IF oldChildIndex < parentNode.NumKeys
            THEN ParentWithChildKey(parentNode, oldChildIndex,
                                    LeafGetMaxKey(oldNode2))
            ELSE parentNode
    IN IF FindChildByPagePanics(parentNode, c.pageNum)
       THEN Returns(Fail(s4, "panic")) ELSE
    With([s5 \in {saveInternalNode(s4, parentPageNum, parentNode2)} |->
    IF s5.err # "ok" THEN Returns(s5)
    ELSE CallsParentInsert(s5, parentPageNum, newPageNum)
    ])])])])])

\* Cursor.SplitAndInsert
SplitAndInsert(c, root, key, value) ==
    With([r \in {SplitUpToParentInsert(c, root, key, value)} |->
    IF r.insert
    THEN internalNodeInsert(r.s, root, r.parentPageNum, r.newPageNum)
    ELSE r.s
    ])

\* The shift moves the keys of cells [cellNum, NumCells) but leaves their
\* rows where they were; the row of the last cell is then the zero row
LeafWithCell_RowsNotShifted(node, cellNum, key, value) ==
    LET keys == [i \in 1..(node.NumCells + 1) |->
                    IF i <= cellNum THEN node.Cells[i].Key
                    ELSE IF i = cellNum + 1 THEN key
                    ELSE node.Cells[i - 1].Key]
        rows == [i \in 1..(node.NumCells + 1) |->
                    IF i = cellNum + 1 THEN value
                    ELSE IF i <= node.NumCells THEN node.Cells[i].Value
                    ELSE [ID |-> 0, Username |-> "", Email |-> ""]]
    IN [node EXCEPT
            !.Cells = [i \in 1..(node.NumCells + 1) |->
                          [Key |-> keys[i], Value |-> rows[i]]],
            !.NumCells = @ + 1]

\* An insert into a leaf with room that also ends the leaf chain there
LeafWithCell_ClearsNextLeaf(node, cellNum, key, value) ==
    [node EXCEPT
        !.Cells = SubSeq(node.Cells, 1, cellNum)
                  \o <<[Key |-> key, Value |-> value]>>
                  \o SubSeq(node.Cells, cellNum + 1, node.NumCells),
        !.NumCells = @ + 1,
        !.NextLeaf = 0]

\* InsertLeafNode on a leaf with room: cells [cellNum, NumCells) move one
\* slot right, the new cell goes to index cellNum, NumCells grows by one
LeafWithCell(node, cellNum, key, value) ==
    [node EXCEPT
        !.Cells = SubSeq(node.Cells, 1, cellNum)
                  \o <<[Key |-> key, Value |-> value]>>
                  \o SubSeq(node.Cells, cellNum + 1, node.NumCells),
        !.NumCells = @ + 1]

\* Cursor.InsertLeafNode
InsertLeafNode(c, root, key, value) ==
    With([s1 \in {getPage(c.s, c.pageNum)} |->
    IF s1.err # "ok" THEN s1 ELSE
    LET node == DeserializeLeafNode(s1.pages[c.pageNum])
    IN IF node.NumCells >= LeafNodeMaxCells
       THEN SplitAndInsert([c EXCEPT !.s = s1], root, key, value)
       ELSE saveLeafNode(s1, c.pageNum, LeafWithCell(node, c.cellNum, key, value))
    ])

\* Insert that writes the new row over the stored one before it reports
\* the duplicate
TableInsert_DupOverwrites(s, root, row) ==
    With([s1 \in {getPage(s, root)} |->
    IF s1.err # "ok" THEN s1 ELSE
    With([cursor \in {findKey(s1, root, KeyOf(row.ID))} |->
    IF cursor.s.err # "ok" THEN cursor.s ELSE
    With([s2 \in {getPage(cursor.s, cursor.pageNum)} |->
    IF s2.err # "ok" THEN s2 ELSE
    LET keyToInsert == KeyOf(row.ID)
        cursorNode == DeserializeLeafNode(s2.pages[cursor.pageNum])
    IN IF /\ cursor.cellNum < cursorNode.NumCells
          /\ Cell(cursorNode, cursor.cellNum).Key = keyToInsert
       THEN Fail(saveLeafNode(s2, cursor.pageNum,
                     [cursorNode EXCEPT
                        !.Cells = SetCell(@, cursor.cellNum,
                                          [Key |-> keyToInsert, Value |-> row])]),
                 "dup")
       ELSE InsertLeafNode([cursor EXCEPT !.s = s2], root, KeyOf(row.ID), row)
    ])])])

\* Table.Insert
TableInsert(s, root, row) ==
    With([s1 \in {getPage(s, root)} |->
    IF s1.err # "ok" THEN s1 ELSE
    With([cursor \in {findKey(s1, root, KeyOf(row.ID))} |->
    IF cursor.s.err # "ok" THEN cursor.s ELSE
    With([s2 \in {getPage(cursor.s, cursor.pageNum)} |->
    IF s2.err # "ok" THEN s2 ELSE
    LET keyToInsert == KeyOf(row.ID)
        cursorNode == DeserializeLeafNode(s2.pages[cursor.pageNum])
    IN IF /\ cursor.cellNum < cursorNode.NumCells
          /\ Cell(cursorNode, cursor.cellNum).Key = keyToInsert
       THEN Fail(s2, "dup")
       ELSE InsertLeafNode([cursor EXCEPT !.s = s2], root, KeyOf(row.ID), row)
    ])])])

\* A TableStart that leaves endOfTable unset on a leaf without cells
TableStart_NeverAtEnd(s, root) ==
    With([c \in {findKey(s, root, 0)} |->
    IF c.s.err # "ok"
    THEN [s |-> Fail(c.s, "panic"), pageNum |-> c.pageNum,
          cellNum |-> c.cellNum, endOfTable |-> TRUE]
    ELSE [s |-> c.s, pageNum |-> c.pageNum, cellNum |-> c.cellNum,
          endOfTable |-> FALSE]
    ])

\* TableStart: the cursor plus its endOfTable flag; an error here panics
TableStart(s, root) ==
    With([c \in {findKey(s, root, 0)} |->
    IF c.s.err # "ok"
    THEN [s |-> Fail(c.s, "panic"), pageNum |-> c.pageNum,
          cellNum |-> c.cellNum, endOfTable |-> TRUE]
    ELSE LET node == DeserializeLeafNode(c.s.pages[c.pageNum])
         IN [s |-> c.s, pageNum |-> c.pageNum, cellNum |-> c.cellNum,
             endOfTable |-> (node.NumCells = 0)]
    ])

\* Advance that ends the scan at the end of the first leaf
Advance_NoNextLeaf(c) ==
    With([s1 \in {getPage(c.s, c.pageNum)} |->
    IF s1.err # "ok" THEN [c EXCEPT !.s = Fail(s1, "panic")] ELSE
    LET node == DeserializeLeafNode(s1.pages[c.pageNum])
        cellNum == c.cellNum + 1
    IN IF cellNum >= node.NumCells
       THEN [c EXCEPT !.s = s1, !.cellNum = cellNum, !.endOfTable = TRUE]
       ELSE [c EXCEPT !.s = s1, !.cellNum = cellNum]
    ])

\* Cursor.Advance
Advance(c) ==
    With([s1 \in {getPage(c.s, c.pageNum)} |->
    IF s1.err # "ok" THEN [c EXCEPT !.s = Fail(s1, "panic")] ELSE
    LET node == DeserializeLeafNode(s1.pages[c.pageNum])
        cellNum == c.cellNum + 1
    IN IF cellNum >= node.NumCells
       THEN IF node.NextLeaf = 0
            THEN [c EXCEPT !.s = s1, !.cellNum = cellNum, !.endOfTable = TRUE]
            ELSE [c EXCEPT !.s = s1, !.pageNum = node.NextLeaf, !.cellNum = 0]
       ELSE [c EXCEPT !.s = s1, !.cellNum = cellNum]
    ])

\* Cursor.Value reads Cells[cellNum] whatever NumCells is.  The model keeps
\* no cell at or above NumCells: ValueIsStale tells when one would be read.
ValueIsStale(c) ==
    c.cellNum >= DeserializeLeafNode(c.s.pages[c.pageNum]).NumCells

Value(c) == Cell(DeserializeLeafNode(c.s.pages[c.pageNum]), c.cellNum).Value

\* The loop of Table.SelectAll ends on endOfTable, or at a panic
SelectDone(st) == st.c.s.err # "ok" \/ st.c.endOfTable

\* One turn of the loop of Table.SelectAll on [c, rows]: Value, then Advance
SelectStep(st) ==
    With([s1 \in {getPage(st.c.s, st.c.pageNum)} |->
    IF s1.err # "ok"
    THEN [c |-> [st.c EXCEPT !.s = Fail(s1, "panic")], rows |-> st.rows]
    ELSE IF ValueIsStale([st.c EXCEPT !.s = s1])
    THEN [c |-> [st.c EXCEPT !.s = Fail(s1, "stale")], rows |-> st.rows]
    ELSE [c |-> Advance([st.c EXCEPT !.s = s1]),
          rows |-> Append(st.rows, Value([st.c EXCEPT !.s = s1]))]
    ])

\* The first steps turns of the loop of Table.SelectAll, fewer when the loop
\* ends before: the turns of the first half, then the turns of the second
RECURSIVE SelectLoop(_, _)
SelectLoop(st, steps) ==
    IF SelectDone(st) \/ steps = 0 THEN st
    ELSE IF steps = 1 THEN SelectStep(st)
    ELSE With([half \in {SelectLoop(st, steps \div 2)} |->
              SelectLoop(half, steps - steps \div 2)])

\* Table.SelectAll: [s, rows].  A scan with more turns than every cell of
\* every page is a cycle in the leaf chain ("diverge").
SelectAll(s, root) ==
    With([st \in {SelectLoop([c |-> TableStart(s, root), rows |-> <<>>],
                             tableMaxPages * (LeafNodeMaxCells + 1))} |->
    IF SelectDone(st) THEN [s |-> st.c.s, rows |-> st.rows]
    ELSE [s |-> Fail(st.c.s, "diverge"), rows |-> st.rows]
    ])

----------------------------------------------------------------------------
(* Open and close *)

\* p.file.WriteAt of one page; a write past the end of file extends it
RECURSIVE WriteAt(_, _, _)
WriteAt(f, pageNum, buf) ==
    IF pageNum < Len(f) THEN [f EXCEPT ![pageNum + 1] = buf]
    ELSE IF pageNum = Len(f) THEN Append(f, buf)
    ELSE WriteAt(Append(f, ZeroPage), pageNum, buf)

\* An OpenDatabase that makes page 0 an empty root leaf on every open
OpenDatabase_AlwaysNewRoot ==
    LET fileSize == Len(file) * pageSize
        p == [fileLength |-> fileSize, pages |-> <<>>,
              numPages |-> fileSize \div pageSize, err |-> "ok",
              replaced |-> {}]
    IN IF fileSize % pageSize # 0 THEN Fail(p, "corrupt")
       ELSE With([s1 \in {saveLeafNode(p, 0, [NewLeafNode EXCEPT !.IsRoot = 1])} |->
            IF s1.err # "ok" \/ p.numPages # 0 THEN s1
            ELSE [s1 EXCEPT !.numPages = 1]])

\* openPager and OpenDatabase: the execution state of the new table
OpenDatabase ==
    LET fileSize == Len(file) * pageSize
        p == [fileLength |-> fileSize, pages |-> <<>>,
              numPages |-> fileSize \div pageSize, err |-> "ok",
              replaced |-> {}]
    IN IF fileSize % pageSize # 0 THEN Fail(p, "corrupt")
       ELSE IF p.numPages = 0
       THEN With([s1 \in {saveLeafNode(p, 0, [NewLeafNode EXCEPT !.IsRoot = 1])} |->
            IF s1.err # "ok" THEN s1 ELSE [s1 EXCEPT !.numPages = 1]])
       ELSE p

\* A turn of the loop of Table.Close that flushes nothing
CloseStep_NoFlush(p, st) ==
    IF st.pageNum >= tableMaxPages THEN [st EXCEPT !.err = "panic"]
    ELSE [st EXCEPT !.pageNum = @ + 1]

\* One turn of the loop of Table.Close on [file, err, pageNum]:
\* p.pages[pageNum] with pageNum past the array panics, a page that is not
\* cached is skipped, a cached page is flushed.
CloseStep(p, st) ==
    IF st.pageNum >= tableMaxPages THEN [st EXCEPT !.err = "panic"]
    ELSE IF st.pageNum \notin DOMAIN p.pages
    THEN [st EXCEPT !.pageNum = @ + 1]
    ELSE [st EXCEPT !.file = WriteAt(@, st.pageNum, p.pages[st.pageNum]),
                    !.pageNum = @ + 1]

\* The first steps turns of the loop of Table.Close, fewer when the loop ends
\* before: the turns of the first half, then the turns of the second
RECURSIVE CloseLoop(_, _, _)
CloseLoop(p, st, steps) ==
    IF st.pageNum >= p.numPages \/ st.err # "ok" \/ steps = 0 THEN st
    ELSE IF steps = 1 THEN CloseStep(p, st)
    ELSE With([half \in {CloseLoop(p, st, steps \div 2)} |->
              CloseLoop(p, half, steps - steps \div 2)])

\* Table.Close: [file, err].  The loop panics in the turn of page number
\* tableMaxPages when it has not ended before.
TableClose(p) ==
    With([st \in {CloseLoop(p, [file |-> file, err |-> "ok", pageNum |-> 0],
                            tableMaxPages + 1)} |->
    [file |-> st.file, err |-> st.err]
    ])

----------------------------------------------------------------------------
(* The state machine *)

ClosedPager == [fileLength |-> 0, pages |-> <<>>, numPages |-> 0]

Exec(p) == [fileLength |-> p.fileLength, pages |-> p.pages,
            numPages |-> p.numPages, err |-> "ok", replaced |-> {}]

PagerOf(s) == [fileLength |-> s.fileLength, pages |-> s.pages,
               numPages |-> s.numPages]

Returned(op, err, known, rows) ==
    [op |-> op, err |-> err, known |-> known, rows |-> rows]

\* The program starts with no database file and no table.
Init ==
    /\ file = <<>>
    /\ pager = ClosedPager
    /\ rootPageNum = 0
    /\ isOpen = FALSE
    /\ result = Returned("none", "ok", FALSE, <<>>)
    /\ okCount = [k \in AllIDs |-> 0]
    /\ stored = [k \in AllIDs |-> MkRow(k, "")]

\* OpenDatabase(filename)
Open ==
    /\ ~isOpen
    /\ \E s \in {OpenDatabase} :
          /\ pager' = PagerOf(s)
          /\ isOpen' = (s.err = "ok")
          /\ result' = Returned("open", s.err, FALSE, <<>>)
    /\ rootPageNum' = 0
    /\ UNCHANGED <<file, okCount, stored>>

\* An insert that flushes every cached page before it returns
InsertRow_WritesThrough(row) ==
    /\ isOpen
    /\ \E s \in {TableInsert(Exec(pager), rootPageNum, row)} :
       LET key == KeyOf(row.ID)
       IN /\ file' = IF s.err = "panic" THEN file
                     ELSE TableClose(PagerOf(s)).file
          /\ pager' = IF s.err = "panic" THEN ClosedPager ELSE PagerOf(s)
          /\ isOpen' = (s.err # "panic")
          /\ result' = Returned("insert", s.err, okCount[key] > 0, <<>>)
          /\ okCount' = IF s.err = "ok" THEN [okCount EXCEPT ![key] = @ + 1]
                        ELSE okCount
          /\ stored' = IF s.err = "ok" /\ okCount[key] = 0
                       THEN [stored EXCEPT ![key] = row] ELSE stored
    /\ UNCHANGED rootPageNum

\* table.Insert(row).  A call that panics ends the process: the table is
\* gone and the file is as it was.
InsertRow(row) ==
    /\ isOpen
    /\ \E s \in {TableInsert(Exec(pager), rootPageNum, row)} :
       LET key == KeyOf(row.ID)
       IN /\ pager' = IF s.err = "panic" THEN ClosedPager ELSE PagerOf(s)
          /\ isOpen' = (s.err # "panic")
          /\ result' = Returned("insert", s.err, okCount[key] > 0, <<>>)
          /\ okCount' = IF s.err = "ok" THEN [okCount EXCEPT ![key] = @ + 1]
                        ELSE okCount
          /\ stored' = IF s.err = "ok" /\ okCount[key] = 0
                       THEN [stored EXCEPT ![key] = row] ELSE stored
    /\ UNCHANGED <<rootPageNum, file>>

\* Insert of a row whose ID was not inserted before
Insert ==
    \E row \in Rows : okCount[KeyOf(row.ID)] = 0 /\ InsertRow(row)

\* How many Insert calls of an already stored key have returned nil
RECURSIVE SumFrom(_, _)
SumFrom(f, k) == IF k \notin DOMAIN f THEN 0 ELSE f[k] + SumFrom(f, k + 1)

DupAccepted == SumFrom([k \in 0..MaxAnyID |-> IF okCount[k] > 1 THEN okCount[k] - 1 ELSE 0], 0)

\* Insert of any row, a stored ID included
InsertAny ==
    \E row \in AnyRows :
        /\ okCount[KeyOf(row.ID)] > 0 => DupAccepted < MaxDupAccepted
        /\ InsertRow(row)

\* Insert before the file was written for the first time
InsertFirst == file = <<>> /\ Insert

\* table.SelectAll()
Select ==
    /\ isOpen
    /\ \E r \in {SelectAll(Exec(pager), rootPageNum)} :
          /\ pager' = IF r.s.err # "ok" THEN ClosedPager ELSE PagerOf(r.s)
          /\ isOpen' = (r.s.err = "ok")
          /\ result' = Returned("select", r.s.err, FALSE, r.rows)
    /\ UNCHANGED <<rootPageNum, file, okCount, stored>>

\* table.Close()
Close ==
    /\ isOpen
    /\ \E r \in {TableClose(pager)} :
          /\ file' = r.file
          /\ result' = Returned("close", r.err, FALSE, <<>>)
    /\ isOpen' = FALSE
    /\ pager' = ClosedPager
    /\ UNCHANGED <<rootPageNum, okCount, stored>>

\* One session, rows with pairwise distinct IDs
Next == Open \/ Insert \/ Select

Spec == Init /\ [][Next]_vars

\* One session, any rows
NextAny == Open \/ InsertAny \/ Select

SpecAny == Init /\ [][NextAny]_vars

\* Rows with pairwise distinct IDs, then close and reopen any number of times
NextPersist == Open \/ InsertFirst \/ Select \/ Close

SpecPersist == Init /\ [][NextPersist]_vars

----------------------------------------------------------------------------
(* State functions used by the properties *)

\* The content of page p as getPage would return it now
Page(p) == IF p \in DOMAIN pager.pages THEN pager.pages[p] ELSE ReadAt(p)

IsLeafPage(p) == GetNodeTypeFromPage(Page(p)) = NodeTypeLeaf

Leaf(p) == DeserializeLeafNode(Page(p))

Internal(p) == DeserializeInternalNode(Page(p))

\* The cell keys met by TableStart followed by Advance until endOfTable
WalkStep(st) ==
    With([s1 \in {getPage(st.c.s, st.c.pageNum)} |->
    IF s1.err # "ok" \/ ValueIsStale([st.c EXCEPT !.s = s1])
    THEN [c |-> [st.c EXCEPT !.s = Fail(s1, "panic")], keys |-> st.keys]
    ELSE [c |-> Advance([st.c EXCEPT !.s = s1]),
          keys |-> Append(st.keys, Cell(DeserializeLeafNode(s1.pages[st.c.pageNum]),
                                        st.c.cellNum).Key)]
    ])

RECURSIVE WalkLoop(_, _)
WalkLoop(st, steps) ==
    IF SelectDone(st) \/ steps = 0 THEN st
    ELSE IF steps = 1 THEN WalkStep(st)
    ELSE With([half \in {WalkLoop(st, steps \div 2)} |->
              WalkLoop(half, steps - steps \div 2)])

WalkKeys ==
    WalkLoop([c |-> TableStart(Exec(pager), rootPageNum), keys |-> <<>>],
             tableMaxPages * (LeafNodeMaxCells + 1)).keys

StrictlyAscending(seq) ==
    \A i \in 1..(Len(seq) - 1) : seq[i] < seq[i + 1]

InsertReturnedOk == isOpen /\ result.op = "insert" /\ result.err = "ok"

SelectReturned == isOpen /\ result.op = "select" /\ result.err = "ok"

InsertedKeys == {k \in AllIDs : okCount[k] > 0}

NumInserted == Cardinality(InsertedKeys)

AllDistinctOk == \A k \in AllIDs : okCount[k] <= 1

\* No call has panicked, run out of pages or looped
NoFailure == result.err \in {"ok", "dup"}

\* The child page numbers of internal node n, left to right
ChildrenOf(n) == [i \in 1..(n.NumKeys + 1) |-> GetChild(n, i - 1)]

\* The keys stored in the leaves below page p (at most d levels down)
RECURSIVE SubtreeKeys(_, _)
SubtreeKeys(p, d) ==
    IF d = 0 THEN {}
    ELSE IF IsLeafPage(p) THEN {Leaf(p).Cells[i].Key : i \in 1..Leaf(p).NumCells}
    ELSE UNION {SubtreeKeys(ChildrenOf(Internal(p))[i], d - 1) :
                    i \in 1..(Internal(p).NumKeys + 1)}

\* The internal pages of the tree below page p, p included
RECURSIVE InternalPages(_, _)
InternalPages(p, d) ==
    IF d = 0 \/ IsLeafPage(p) THEN {}
    ELSE {p} \cup UNION {InternalPages(ChildrenOf(Internal(p))[i], d - 1) :
                            i \in 1..(Internal(p).NumKeys + 1)}

\* The leaf pages below page p in child order
RECURSIVE ConcatLeaves(_, _, _)
RECURSIVE LeavesInOrder(_, _)
ConcatLeaves(children, i, d) ==
    IF i > Len(children) THEN <<>>
    ELSE LeavesInOrder(children[i], d) \o ConcatLeaves(children, i + 1, d)

LeavesInOrder(p, d) ==
    IF d = 0 THEN <<>>
    ELSE IF IsLeafPage(p) THEN <<p>>
    ELSE ConcatLeaves(ChildrenOf(Internal(p)), 1, d - 1)

\* The leaf pages met by following NextLeaf from leaf p, at most n of them
RECURSIVE LeafChain(_, _)
LeafChain(p, n) ==
    IF n = 0 THEN <<>>
    ELSE IF Leaf(p).NextLeaf = 0 THEN <<p>>
    ELSE <<p>> \o LeafChain(Leaf(p).NextLeaf, n - 1)

Max(S) == CHOOSE x \in S : \A y \in S : y <= x

\* Number of levels of the tree: 1 when the root is a leaf
RECURSIVE Levels(_, _)
Levels(p, d) ==
    IF d = 0 \/ IsLeafPage(p) THEN 1
    ELSE 1 + Levels(GetChild(Internal(p), 0), d - 1)

TreeLevels == Levels(rootPageNum, pager.numPages)

----------------------------------------------------------------------------
(* Inserts until the pager has no page left *)

\* The keys the next insert of SpecFull may take: any key first, then the
\* keys above it in ascending order up to MaxSeqID, then the keys from 0 in
\* ascending order.  A key whose insert returned an error is tried again.
NextSeqKeys ==
    IF InsertedKeys = {} THEN 0..MaxSeqID
    ELSE IF Max(InsertedKeys) < MaxSeqID THEN {Max(InsertedKeys) + 1}
    ELSE {k \in 0..MaxSeqID :
            okCount[k] = 0 /\ \A j \in 0..(k - 1) : okCount[j] > 0}

InsertSeq ==
    /\ file = <<>>
    /\ \E k \in NextSeqKeys : okCount[k] = 0 /\ InsertRow(MkRow(k, "user"))

\* .exit after an insert has reported that no page is left
CloseFull == result.op = "insert" /\ result.err = "oob" /\ Close

NextFull == Open \/ InsertSeq \/ Select \/ CloseFull

SpecFull == Init /\ [][NextFull]_vars

----------------------------------------------------------------------------
(* An insert that follows an insert for which the pager had no page left *)

\* The keys of NextSeqKeys but for the largest one, MaxSeqID
NextSeqKeysBelowMax ==
    LET S == InsertedKeys \ {MaxSeqID}
    IN IF S = {} THEN 0..(MaxSeqID - 1)
       ELSE IF Max(S) < MaxSeqID - 1 THEN {Max(S) + 1}
       ELSE {k \in 0..(MaxSeqID - 1) :
               okCount[k] = 0 /\ \A j \in 0..(k - 1) : okCount[j] > 0}

InsertSeqBelowMax ==
    /\ file = <<>>
    /\ \E k \in NextSeqKeysBelowMax : okCount[k] = 0 /\ InsertRow(MkRow(k, "user"))

\* table.Insert of the largest key once an insert has reported that no page
\* is left
InsertAfterFull ==
    /\ file = <<>>
    /\ result.op = "insert" /\ result.err = "oob"
    /\ okCount[MaxSeqID] = 0
    /\ InsertRow(MkRow(MaxSeqID, "user"))

NextAfterFull == Open \/ InsertSeqBelowMax \/ InsertAfterFull \/ Select \/ CloseFull

SpecAfterFull == Init /\ [][NextAfterFull]_vars

----------------------------------------------------------------------------
(* Inserts into a table that was closed and opened again *)

\* Insert of a row with a new ID, in the first session or in a later one
InsertReopen ==
    \E row \in Rows :
        /\ row.ID <= MaxReopenID
        /\ okCount[KeyOf(row.ID)] = 0
        /\ InsertRow(row)

NextReopen == Open \/ InsertReopen \/ Select \/ Close

SpecReopen == Init /\ [][NextReopen]_vars

----------------------------------------------------------------------------
(* Properties *)

\* C1: after every successful insert, the walk of the leaf sibling chain
\* from table_start with advance yields keys in strictly ascending order,
\* no key twice.
C1_ScanStrictlyAscending ==
    InsertReturnedOk => StrictlyAscending(WalkKeys)

\* C2: when every insert so far had a new key and returned Ok, scan_all
\* returns one row per inserted key: the scanned keys are the inserted keys
\* and there are as many rows as successful inserts.
C2_ScanReturnsEveryKeyOnce ==
    (SelectReturned /\ AllDistinctOk) =>
        /\ {KeyOf(result.rows[i].ID) : i \in 1..Len(result.rows)} = InsertedKeys
        /\ Len(result.rows) = NumInserted

C2_Witness ==
    /\ SelectReturned /\ AllDistinctOk
    /\ Len(result.rows) >= 9
    /\ TreeLevels = 3
    /\ Internal(rootPageNum).NumKeys >= 2

\* C3: insert of a row whose key is already stored returns DuplicateKey.
C3_StoredKeyIsRejected ==
    (result.op = "insert" /\ result.known) => result.err = "dup"

\* The engine state: the page count and the content of every page
EngineState ==
    [numPages |-> pager.numPages,
     root |-> rootPageNum,
     pages |-> [p \in 0..(pager.numPages - 1) |-> Page(p)]]

\* C4: an insert that returns DuplicateKey leaves the engine state as it
\* was: every page and the pager's page count.
C4_DuplicateChangesNothing ==
    [][(result'.op = "insert" /\ result'.err = "dup") =>
            EngineState' = EngineState]_vars

C4_Witness ==
    /\ result.op = "insert" /\ result.err = "dup"
    /\ TreeLevels >= 2

\* C5: after the rows of distinct keys were inserted and the table was
\* closed and opened again (any number of times), scan_all returns exactly
\* the inserted rows in ascending key order.
C5_ReopenedScanIsSortedRows ==
    (SelectReturned /\ file # <<>> /\ AllDistinctOk) =>
        /\ Len(result.rows) = NumInserted
        /\ \A i \in 1..Len(result.rows) :
              result.rows[i] = stored[KeyOf(result.rows[i].ID)]
        /\ StrictlyAscending([i \in 1..Len(result.rows) |-> KeyOf(result.rows[i].ID)])

\* C6: the row scan_all returns for a key inserted once is the row that was
\* inserted, in all three fields.
C6_ScannedRowIsInsertedRow ==
    SelectReturned =>
        \A k \in AllIDs : okCount[k] = 1 =>
            /\ \E i \in 1..Len(result.rows) : KeyOf(result.rows[i].ID) = k
            /\ \A i \in 1..Len(result.rows) :
                  KeyOf(result.rows[i].ID) = k => result.rows[i] = stored[k]

C6_Witness ==
    /\ SelectReturned
    /\ TreeLevels >= 2
    /\ Len(result.rows) >= 5
    /\ \E i \in 1..Len(result.rows) : result.rows[i].Username = "newuser"
    /\ \E i \in 1..Len(result.rows) : result.rows[i].Username = "user"

\* C7: after every successful insert, in every internal node each cell key
\* is the largest key stored below that cell's child, and every key below
\* right_child is greater than the last cell key.
C7_CellKeyIsSubtreeMax ==
    InsertReturnedOk =>
        \A p \in InternalPages(rootPageNum, pager.numPages) :
            LET n == Internal(p)
            IN /\ \A i \in 0..(n.NumKeys - 1) :
                    LET keys == SubtreeKeys(Cell(n, i).Child, pager.numPages)
                    IN keys # {} /\ Cell(n, i).Key = Max(keys)
               /\ n.NumKeys > 0 =>
                    \A k \in SubtreeKeys(n.RightChild, pager.numPages) :
                        k > Cell(n, n.NumKeys - 1).Key

\* C8: after every successful insert, the parent field of every non-root
\* node names an internal node that has this node among its children.
C8_ParentListsChild ==
    InsertReturnedOk =>
        \A p \in 1..(pager.numPages - 1) :
            LET q == Page(p).w2
            IN /\ q \in 0..(pager.numPages - 1)
               /\ ~IsLeafPage(q)
               /\ \E i \in 1..(Internal(q).NumKeys + 1) : ChildrenOf(Internal(q))[i] = p

C8_Witness ==
    /\ InsertReturnedOk
    /\ TreeLevels = 3
    /\ Internal(rootPageNum).NumKeys >= 2

\* C9: after every successful insert, following next_leaf from the leftmost
\* leaf visits every leaf of the tree once, in the tree's left-to-right
\* child order, and ends at a leaf whose next_leaf is 0.
C9_ChainIsLeavesInOrder ==
    InsertReturnedOk =>
        LET leaves == LeavesInOrder(rootPageNum, pager.numPages)
            chain == LeafChain(leaves[1], pager.numPages)
        IN /\ leaves # <<>>
           /\ chain = leaves
           /\ \A i, j \in 1..Len(chain) : chain[i] = chain[j] => i = j
           /\ Leaf(chain[Len(chain)]).NextLeaf = 0

C9_Witness ==
    /\ InsertReturnedOk
    /\ TreeLevels = 3
    /\ Len(LeavesInOrder(rootPageNum, pager.numPages)) >= 7

\* C10: in every state of an open table exactly one page has is-root = 1,
\* it is page 0, and the table's root page number is 0.
C10_RootIsPageZero ==
    isOpen =>
        /\ rootPageNum = 0
        /\ \A p \in 0..(pager.numPages - 1) : (Page(p).b1 = 1) <=> (p = 0)
        /\ \A p \in 0..(pager.numPages - 1) : Page(p).b1 \in {0, 1}

C10_Witness ==
    /\ isOpen
    /\ TreeLevels = 3
    /\ result.op = "insert"

\* C11: when an insert has returned PageOutOfBounds, a scan_all that follows
\* returns, and its rows hold every key whose insert returned Ok before that
\* failure.  (That the rows ascend is stated for every scan by C1.)
C11_ScanAfterFullReturnsInsertedKeys ==
    [][(result.op = "insert" /\ result.err = "oob" /\ result'.op = "select") =>
          /\ result'.err = "ok"
          /\ InsertedKeys \subseteq
                {KeyOf(result'.rows[i].ID) : i \in 1..Len(result'.rows)}
      ]_vars

\* C12: at the page limit an insert returns page-out-of-bounds as a value, and
\* every later insert and the final close return too, Ok or an error: no
\* insert and no close aborts the program.
C12_InsertAndCloseReturn ==
    result.op \in {"insert", "close"} => result.err # "panic"

\* C13: when the insert of the (LeafNodeMaxCells + 1)-th distinct key into a
\* full root leaf has returned Ok, page 0 is an internal root with one key
\* and two leaf children; the left leaf holds LeafNodeLeftSplitCount cells,
\* the right leaf LeafNodeRightSplitCount cells, and the root's key is the
\* largest key of the left leaf.
C13_RootGrowsFromLeaf ==
    (InsertReturnedOk /\ AllDistinctOk /\ NumInserted = LeafNodeMaxCells + 1) =>
        /\ ~IsLeafPage(0)
        /\ Internal(0).IsRoot = 1
        /\ Internal(0).NumKeys = 1
        /\ LET left == GetChild(Internal(0), 0)
               right == GetChild(Internal(0), 1)
           IN /\ left # right
              /\ IsLeafPage(left) /\ IsLeafPage(right)
              /\ Leaf(left).NumCells = LeafNodeLeftSplitCount
              /\ Leaf(right).NumCells = LeafNodeRightSplitCount
              /\ Cell(Internal(0), 0).Key = LeafGetMaxKey(Leaf(left))
              /\ \A i \in 1..Leaf(left).NumCells :
                    Leaf(left).Cells[i].Key <= Cell(Internal(0), 0).Key

C13_Witness ==
    /\ InsertReturnedOk /\ AllDistinctOk
    /\ NumInserted = LeafNodeMaxCells + 1
    /\ pager.numPages = 3
    /\ ~IsLeafPage(0)

LeafKeys(p) == {Leaf(p).Cells[i].Key : i \in 1..Leaf(p).NumCells}

\* C15: whatever the order in which distinct keys were inserted, when the
\* table has InternalNodeMaxKeys + 1 leaves the root is an internal node with
\* InternalNodeMaxKeys keys, its children are those leaves, every key of a
\* child is smaller than every key of the child to its right, and each root
\* key is the largest key of the leaf to its left.
C15_FullRootOverLeaves ==
    (/\ InsertReturnedOk /\ AllDistinctOk
     /\ Cardinality({p \in 0..(pager.numPages - 1) : IsLeafPage(p)})
            = InternalNodeMaxKeys + 1) =>
        /\ ~IsLeafPage(rootPageNum)
        /\ Internal(rootPageNum).NumKeys = InternalNodeMaxKeys
        /\ LET children == ChildrenOf(Internal(rootPageNum))
           IN /\ \A i \in 1..Len(children) :
                    IsLeafPage(children[i]) /\ LeafKeys(children[i]) # {}
              /\ \A i, j \in 1..Len(children) :
                    i # j => children[i] # children[j]
              /\ \A i \in 1..(Len(children) - 1) :
                    /\ Max(LeafKeys(children[i])) < Max(LeafKeys(children[i + 1]))
                    /\ \A k \in LeafKeys(children[i + 1]) :
                          Max(LeafKeys(children[i])) < k
                    /\ Internal(rootPageNum).Cells[i].Key = Max(LeafKeys(children[i]))
              /\ UNION {LeafKeys(children[i]) : i \in 1..Len(children)} = InsertedKeys

\* Four leaves whose page numbers are not in key order: the keys did not
\* come in ascending order.
C15_Witness ==
    /\ InsertReturnedOk /\ AllDistinctOk
    /\ pager.numPages = InternalNodeMaxKeys + 2
    /\ ~IsLeafPage(rootPageNum)
    /\ Internal(rootPageNum).NumKeys = InternalNodeMaxKeys
    /\ \E i \in 1..InternalNodeMaxKeys :
          ChildrenOf(Internal(rootPageNum))[i] > ChildrenOf(Internal(rootPageNum))[i + 1]

OpenReturnedOk == isOpen /\ result.op = "open" /\ result.err = "ok"

\* C16: when OpenDatabase has returned a table for a file that is missing or
\* empty, page 0 is a leaf with is-root 1, no cell and next_leaf 0, and it is
\* the table's only page; for a file that holds pages, the table has the
\* file's pages and page 0 reads as the file's first page.
C16_OpenInitializesEmptyFileOnly ==
    OpenReturnedOk =>
        /\ rootPageNum = 0
        /\ Len(file) = 0 =>
              /\ pager.numPages = 1
              /\ 0 \in DOMAIN pager.pages
              /\ IsLeafPage(0)
              /\ Leaf(0).IsRoot = 1
              /\ Leaf(0).NumCells = 0
              /\ Leaf(0).NextLeaf = 0
        /\ Len(file) > 0 =>
              /\ pager.numPages = Len(file)
              /\ Page(0) = file[1]

\* The table is reopened on a file whose page 0 is an internal root.
C16_Witness ==
    /\ OpenReturnedOk
    /\ Len(file) >= 3
    /\ GetNodeTypeFromPage(file[1]) = NodeTypeInternal
    /\ Page(0) = file[1]

\* C17: the file is changed by close only: a step of insert, of scan_all or
\* of open leaves every page of the file as it was.
C17_FileWrittenOnlyByClose ==
    [][file' # file => (isOpen /\ result'.op = "close")]_vars

\* An insert into a reopened table has split a leaf and the file still has
\* the pages of the last close.
C17_Witness ==
    /\ InsertReturnedOk
    /\ Len(file) >= 3
    /\ pager.numPages > Len(file)
    /\ \E p \in DOMAIN pager.pages : p < Len(file) /\ pager.pages[p] # file[p + 1]

\* C18: when close returns Ok, the file holds at page offset p the content
\* of the cached buffer of every cached page p in [0, numPages), a page that
\* was not cached is in the file as before, the file is a whole number of
\* pages, and the open that follows is not rejected.
C18_CloseWritesEveryCachedPage ==
    [][(isOpen /\ result'.op = "close" /\ result'.err = "ok") =>
          /\ \A p \in 0..(pager.numPages - 1) :
                /\ p \in DOMAIN pager.pages =>
                      p < Len(file') /\ file'[p + 1] = pager.pages[p]
                /\ (p \notin DOMAIN pager.pages /\ p < Len(file)) =>
                      file'[p + 1] = file[p + 1]
          /\ (Len(file') * pageSize) % pageSize = 0
          /\ OpenDatabase'.err = "ok"
      ]_vars

\* A table that was reopened, scanned and extended has been closed: some of
\* its pages were cached and changed, some were new.
C18_Witness ==
    /\ ~isOpen
    /\ result.op = "close" /\ result.err = "ok"
    /\ Len(file) >= 5
    /\ GetNodeTypeFromPage(file[1]) = NodeTypeInternal
    /\ NumInserted = MaxReopenID + 1

\* C19: for every internal node of the tree and every key, FindChild returns
\* the smallest index i below NumKeys with key <= Cells[i].Key, and NumKeys
\* when the key is greater than every cell key; a key equal to Cells[i].Key
\* gets index i.
C19_FindChildIsSmallestIndex ==
    isOpen =>
        \A p \in InternalPages(rootPageNum, pager.numPages) :
        \A key \in 0..MaxID :
            LET n == Internal(p)
                index == FindChild(n, key)
            IN /\ index \in 0..n.NumKeys
               /\ index < n.NumKeys => key <= Cell(n, index).Key
               /\ \A i \in 0..(index - 1) : key > Cell(n, i).Key

\* C20: after successful inserts of distinct keys, findKey returns for every
\* key a cursor on a leaf; when the key is stored, the cursor's cell holds
\* it; when it is not, the cursor is at the first cell of that leaf with a
\* greater key, or at NumCells, and every key the scan meets before that
\* position is smaller and every key from that position on is greater.
C20_FindKeyPosition ==
    (InsertReturnedOk /\ AllDistinctOk) =>
        \A key \in 0..MaxID :
            LET c == findKey(Exec(pager), rootPageNum, key)
                leaf == Leaf(c.pageNum)
                chain == LeafChain(LeavesInOrder(rootPageNum, pager.numPages)[1],
                                   pager.numPages)
            IN /\ c.s.err = "ok"
               /\ IsLeafPage(c.pageNum)
               /\ c.cellNum \in 0..leaf.NumCells
               /\ key \in InsertedKeys =>
                     c.cellNum < leaf.NumCells /\ Cell(leaf, c.cellNum).Key = key
               /\ key \notin InsertedKeys =>
                     /\ \A i \in 0..(c.cellNum - 1) : Cell(leaf, i).Key < key
                     /\ \A i \in c.cellNum..(leaf.NumCells - 1) : Cell(leaf, i).Key > key
                     /\ \E at \in 1..Len(chain) :
                           /\ chain[at] = c.pageNum
                           /\ \A j \in 1..(at - 1) :
                                 \A k \in LeafKeys(chain[j]) : k < key
                           /\ \A j \in (at + 1)..Len(chain) :
                                 \A k \in LeafKeys(chain[j]) : k > key

\* The internal pages met from page p down by following Cells[0].Child
RECURSIVE LeftSpine(_, _)
LeftSpine(p, d) ==
    IF d = 0 \/ IsLeafPage(p) THEN {}
    ELSE {p} \cup LeftSpine(Cell(Internal(p), 0).Child, d - 1)

\* The internal pages met from page p down by following RightChild
RECURSIVE RightSpine(_, _)
RightSpine(p, d) ==
    IF d = 0 \/ IsLeafPage(p) THEN {}
    ELSE {p} \cup RightSpine(Internal(p).RightChild, d - 1)

\* The leaf at the end of the left spine, and of the right spine
RECURSIVE LeftmostLeaf(_, _)
LeftmostLeaf(p, d) ==
    IF d = 0 \/ IsLeafPage(p) THEN p
    ELSE LeftmostLeaf(Cell(Internal(p), 0).Child, d - 1)

RECURSIVE RightmostLeaf(_, _)
RightmostLeaf(p, d) ==
    IF d = 0 \/ IsLeafPage(p) THEN p
    ELSE RightmostLeaf(Internal(p).RightChild, d - 1)

\* C21: after successful inserts, findKey of a key smaller than every stored
\* key takes child index 0 at every internal node and ends at cell 0 of the
\* leftmost leaf; findKey of a key larger than every stored key takes
\* RightChild at every internal node and ends at index NumCells of the last
\* leaf, the one whose next leaf is 0.
C21_ExtremeKeysFollowTheSpines ==
    (InsertReturnedOk /\ InsertedKeys # {}) =>
        \A key \in 0..MaxID :
            LET c == findKey(Exec(pager), rootPageNum, key)
                first == LeftmostLeaf(rootPageNum, pager.numPages)
                last == RightmostLeaf(rootPageNum, pager.numPages)
            IN /\ (\A k \in InsertedKeys : key < k) =>
                     /\ c.s.err = "ok"
                     /\ \A p \in LeftSpine(rootPageNum, pager.numPages) :
                           FindChild(Internal(p), key) = 0
                     /\ IsLeafPage(first)
                     /\ c.pageNum = first /\ c.cellNum = 0
               /\ (\A k \in InsertedKeys : key > k) =>
                     /\ c.s.err = "ok"
                     /\ \A p \in RightSpine(rootPageNum, pager.numPages) :
                           FindChild(Internal(p), key) = Internal(p).NumKeys
                     /\ IsLeafPage(last) /\ Leaf(last).NextLeaf = 0
                     /\ c.pageNum = last /\ c.cellNum = Leaf(last).NumCells

\* A tree of three levels that holds neither the smallest nor the largest ID
C21_Witness ==
    /\ InsertReturnedOk
    /\ TreeLevels = 3
    /\ okCount[0] = 0 /\ okCount[MaxID] = 0
    /\ Cardinality(RightSpine(rootPageNum, pager.numPages)) = 2

\* C22: in every state of an open table the cells [0, NumCells) of every leaf
\* page are sorted strictly ascending by key.
C22_LeafCellsStrictlyAscending ==
    isOpen =>
        \A p \in 0..(pager.numPages - 1) :
            IsLeafPage(p) =>
                /\ Leaf(p).NumCells <= Len(Leaf(p).Cells)
                /\ \A i \in 0..(Leaf(p).NumCells - 2) :
                      Cell(Leaf(p), i).Key < Cell(Leaf(p), i + 1).Key

\* A tree of three levels with a full leaf and a leaf that is not full
C22_Witness ==
    /\ InsertReturnedOk
    /\ TreeLevels = 3
    /\ \E p, q \in 0..(pager.numPages - 1) :
          /\ IsLeafPage(p) /\ Leaf(p).NumCells = LeafNodeMaxCells
          /\ IsLeafPage(q) /\ Leaf(q).NumCells < LeafNodeMaxCells

\* C23: a successful insert of key k that lands at index i of a leaf with
\* fewer than LeafNodeMaxCells cells changes that leaf only: cells [0, i)
\* stay, the new cell is at index i, the old cells [i, NumCells) are one
\* slot to the right, NumCells is one more; the leaf's type, root flag,
\* parent and next leaf, every other page and numPages are unchanged.
C23_InsertWithRoomChangesOneLeaf ==
    [][\A k \in 0..MaxID :
        (isOpen /\ okCount'[k] # okCount[k]) =>
            \A c \in {findKey(Exec(pager), rootPageNum, k)} :
            \A old \in {Leaf(c.pageNum)} :
               (c.s.err = "ok" /\ old.NumCells < LeafNodeMaxCells) =>
                  /\ pager'.numPages = pager.numPages
                  /\ \A p \in 0..(pager.numPages - 1) :
                        p # c.pageNum => Page(p)' = Page(p)
                  /\ \A new \in {Leaf(c.pageNum)'} :
                        /\ new.NodeType = old.NodeType
                        /\ new.IsRoot = old.IsRoot
                        /\ new.Parent = old.Parent
                        /\ new.NextLeaf = old.NextLeaf
                        /\ new.NumCells = old.NumCells + 1
                        /\ \A i \in 0..(c.cellNum - 1) : Cell(new, i) = Cell(old, i)
                        /\ Cell(new, c.cellNum) = [Key |-> k, Value |-> stored'[k]]
                        /\ \A i \in c.cellNum..(old.NumCells - 1) :
                              Cell(new, i + 1) = Cell(old, i)
      ]_vars

\* The last leaf of the chain was made by a split with
\* LeafNodeRightSplitCount cells and was never split itself: it has more
\* cells now, so an insert has landed on it while it had room.
C23_Witness ==
    /\ InsertReturnedOk
    /\ TreeLevels = 3
    /\ \E p \in 0..(pager.numPages - 1) :
          /\ IsLeafPage(p)
          /\ Leaf(p).IsRoot = 0
          /\ Leaf(p).NextLeaf = 0
          /\ Leaf(p).NumCells > LeafNodeRightSplitCount

\* C24: a successful insert of key k at cursor index i of a full leaf L makes
\* a new leaf N.  With all the sequence of the LeafNodeMaxCells + 1 cells,
\* the old ones and the new cell at index i, the old leaf is left with the
\* first LeafNodeLeftSplitCount cells of all and N has the remaining
\* LeafNodeRightSplitCount cells, in order; N.NextLeaf is the old L.NextLeaf
\* and L.NextLeaf is N; the split gives N the parent of L, and the two have
\* the same parent when the insert returns unless that parent was split
\* too.  (The cells of a root leaf are on the page createNewRoot copies the
\* old root to.)
C24_LeafSplitDistributesCells ==
    [][\A k \in 0..MaxID :
        (isOpen /\ okCount'[k] # okCount[k]) =>
            \A c \in {findKey(Exec(pager), rootPageNum, k)} :
            \A old \in {Leaf(c.pageNum)} :
            \A N \in {pager.numPages} :
            \A L \in {IF old.IsRoot # 0 THEN pager.numPages + 1 ELSE c.pageNum} :
            \A sameParent \in {old.IsRoot # 0 \/
                                Internal(old.Parent).NumKeys < InternalNodeMaxKeys} :
            \A row \in {stored'[k]} :
            \A newL \in {Leaf(L)'} :
            \A newN \in {Leaf(N)'} :
            \A leaves \in {IsLeafPage(L)' /\ IsLeafPage(N)'} :
               (c.s.err = "ok" /\ old.NumCells >= LeafNodeMaxCells) =>
                  LET all == [j \in 1..(LeafNodeMaxCells + 1) |->
                                IF j <= c.cellNum THEN old.Cells[j]
                                ELSE IF j = c.cellNum + 1
                                THEN [Key |-> k, Value |-> row]
                                ELSE old.Cells[j - 1]]
                  IN /\ LeafNodeLeftSplitCount + LeafNodeRightSplitCount
                          = LeafNodeMaxCells + 1
                     /\ leaves
                     /\ newL.NumCells = LeafNodeLeftSplitCount
                     /\ \A j \in 1..LeafNodeLeftSplitCount : newL.Cells[j] = all[j]
                     /\ newN.NumCells = LeafNodeRightSplitCount
                     /\ \A j \in 1..LeafNodeRightSplitCount :
                           newN.Cells[j] = all[LeafNodeLeftSplitCount + j]
                     /\ newN.NextLeaf = old.NextLeaf
                     /\ newL.NextLeaf = N
                     /\ SplitNewLeaf(old, c.cellNum, k, row).Parent = old.Parent
                     /\ SplitOldLeaf(old, N, c.cellNum, k, row).Parent = old.Parent
                     /\ sameParent => newN.Parent = newL.Parent
      ]_vars

\* A leaf in the middle of the chain of a tree of three levels has been
\* split: its next leaf has a page number above those of the leaves around.
C24_Witness ==
    /\ InsertReturnedOk
    /\ TreeLevels = 3
    /\ \E p \in 0..(pager.numPages - 1) :
          /\ IsLeafPage(p)
          /\ Leaf(p).NumCells = LeafNodeLeftSplitCount
          /\ Leaf(p).NextLeaf = pager.numPages - 1
          /\ IsLeafPage(pager.numPages - 1)
          /\ Leaf(pager.numPages - 1).NumCells = LeafNodeRightSplitCount
          /\ Leaf(pager.numPages - 1).NextLeaf # 0

\* r is a split that goes on with internalNodeInsert: in its execution
\* state the parent does not list the new sibling yet, and the parent's
\* cell for the split node, when there is one, holds GetMaxKey of the split
\* node as it is after the split
ParentKeySetBeforeInsert(r, splitPageNum) ==
    LET parentNode == DeserializeInternalNode(r.s.pages[r.parentPageNum])
        oldChildIndex == FindChildByPage(parentNode, splitPageNum)
    IN /\ \A i \in 0..parentNode.NumKeys :
             GetChild(parentNode, i) # r.newPageNum
       /\ oldChildIndex <= parentNode.NumKeys
       /\ oldChildIndex < parentNode.NumKeys =>
             Cell(parentNode, oldChildIndex).Key
                = GetMaxKeyFromPage(r.s.pages[splitPageNum])

\* C25: an Insert that returns nil and splits a non-root leaf calls
\* internalNodeInsert for the new leaf in a state where the parent's key for
\* the old leaf is already the old leaf's new max key, and the pages it
\* leaves are those of that call; when the parent is full and not the root,
\* the split of the parent calls internalNodeInsert for the parent's new
\* sibling in a state where the grandparent's key for the parent is already
\* GetMaxKey of the parent as the split left it.
C25_ParentKeyUpdatedBeforeSiblingInsert ==
    [][\A k \in 0..MaxID :
        (isOpen /\ okCount'[k] # okCount[k]) =>
            \A c \in {findKey(Exec(pager), rootPageNum, k)} :
            \A old \in {Leaf(c.pageNum)} :
               (c.s.err = "ok" /\ old.NumCells >= LeafNodeMaxCells
                  /\ old.IsRoot = 0) =>
                  \A r \in {SplitUpToParentInsert(c, rootPageNum, k, MkRow(k, "user"))} :
                  \A parentNode \in {Internal(old.Parent)} :
                     /\ r.insert
                     /\ r.s.err = "ok"
                     /\ r.parentPageNum = old.Parent
                     /\ ParentKeySetBeforeInsert(r, c.pageNum)
                     /\ \A fin \in {internalNodeInsert(r.s, rootPageNum,
                                       r.parentPageNum, r.newPageNum)} :
                           /\ fin.err = "ok"
                           /\ pager'.pages = fin.pages
                           /\ pager'.numPages = fin.numPages
                     /\ (InternalNodeIsFull(parentNode) /\ parentNode.IsRoot = 0) =>
                           \A r2 \in {internalNodeSplitUpToParentInsert(r.s,
                                         rootPageNum, r.parentPageNum, r.newPageNum)} :
                              /\ r2.insert
                              /\ r2.s.err = "ok"
                              /\ r2.parentPageNum = parentNode.Parent
                              /\ ParentKeySetBeforeInsert(r2, r.parentPageNum)
      ]_vars

\* A non-root internal node has been split: the page allocated last is an
\* internal node under the root that is not the root's first child, and the
\* node before it in the root keeps InternalNodeLeftSplitCount keys
C25_Witness ==
    /\ InsertReturnedOk
    /\ TreeLevels = 3
    /\ ~IsLeafPage(pager.numPages - 1)
    /\ Internal(pager.numPages - 1).Parent = rootPageNum
    /\ \E i \in 1..Internal(rootPageNum).NumKeys :
          /\ GetChild(Internal(rootPageNum), i) = pager.numPages - 1
          /\ Internal(GetChild(Internal(rootPageNum), i - 1)).NumKeys
                = InternalNodeLeftSplitCount

\* internalNodeInsert(parentPageNum, childPageNum) has gone from execution
\* state s to execution state fin, and the parent had room: what C26 says
\* of the parent before (P) and after (Q)
InternalInsertKeepsChildren(s, parentPageNum, childPageNum, fin) ==
    LET P == DeserializeInternalNode(s.pages[parentPageNum])
        Q == DeserializeInternalNode(fin.pages[parentPageNum])
        ck == GetMaxKeyFromPage(s.pages[childPageNum])
        rk == GetMaxKeyFromPage(s.pages[P.RightChild])
        index == FindChild(P, ck)
        Occurs(n, pg) == Cardinality({i \in 0..n.NumKeys : GetChild(n, i) = pg})
    IN /\ fin.err = "ok"
       /\ Q.NumKeys = P.NumKeys + 1
       /\ \A i \in 0..P.NumKeys : Occurs(Q, GetChild(P, i)) = 1
       /\ Occurs(P, childPageNum) = 0
       /\ Occurs(Q, childPageNum) = 1
       /\ \A i \in 1..(Q.NumKeys - 1) : Q.Cells[i].Key < Q.Cells[i + 1].Key
       /\ IF ck > rk
          THEN /\ Q.RightChild = childPageNum
               /\ Cell(Q, P.NumKeys) = [Child |-> P.RightChild, Key |-> rk]
               /\ \A i \in 0..(P.NumKeys - 1) : Cell(Q, i) = Cell(P, i)
          ELSE /\ Q.RightChild = P.RightChild
               /\ Cell(Q, index) = [Child |-> childPageNum, Key |-> ck]
               /\ \A i \in 0..(index - 1) : Cell(Q, i) = Cell(P, i)
               /\ \A i \in index..(P.NumKeys - 1) : Cell(Q, i + 1) = Cell(P, i)

\* C26: an Insert that returns nil and splits a non-root leaf under a parent
\* with fewer than InternalNodeMaxKeys keys gives the parent one more key,
\* keeps each of its children once and adds the new leaf once, with cell
\* keys strictly ascending: the new leaf becomes the right child when its
\* max key is above that of the old right child, which then becomes the last
\* cell, and otherwise it is the cell at FindChild of its max key, the later
\* cells one slot to the right.  The same holds for the new sibling of a
\* split internal node that is put into a grandparent with room.
C26_InternalInsertAddsOneChild ==
    [][\A k \in 0..MaxID :
        (isOpen /\ okCount'[k] # okCount[k]) =>
            \A c \in {findKey(Exec(pager), rootPageNum, k)} :
            \A old \in {Leaf(c.pageNum)} :
               (c.s.err = "ok" /\ old.NumCells >= LeafNodeMaxCells
                  /\ old.IsRoot = 0) =>
                  \A r \in {SplitUpToParentInsert(c, rootPageNum, k, MkRow(k, "user"))} :
                  \A parentNode \in {Internal(old.Parent)} :
                  \A after \in {pager'} :
                     IF ~InternalNodeIsFull(parentNode)
                     THEN InternalInsertKeepsChildren(r.s, r.parentPageNum,
                                                      r.newPageNum, Exec(after))
                     ELSE parentNode.IsRoot = 0 =>
                          \A r2 \in {internalNodeSplitUpToParentInsert(r.s,
                                        rootPageNum, r.parentPageNum, r.newPageNum)} :
                             ~InternalNodeIsFull(Internal(parentNode.Parent)) =>
                             InternalInsertKeepsChildren(r2.s, r2.parentPageNum,
                                                         r2.newPageNum, Exec(after))
      ]_vars

\* A new leaf was put in the middle of the cells of a parent of three keys,
\* below the root of a tree of three levels
C26_Witness ==
    /\ InsertReturnedOk
    /\ TreeLevels = 3
    /\ IsLeafPage(pager.numPages - 1)
    /\ \E P \in InternalPages(rootPageNum, TreeLevels) :
          /\ Internal(P).IsRoot = 0
          /\ Internal(P).NumKeys = InternalNodeMaxKeys
          /\ Cell(Internal(P), 1).Child = pager.numPages - 1

\* The key a full internal node P has, in execution state s, for its child
\* x in the sequence of its cells merged with new child C: the cell key of
\* an old child, GetMaxKey of the page for C and for the old right child
MergedKey(s, P, C, x) ==
    IF x = C \/ x = P.RightChild THEN GetMaxKeyFromPage(s.pages[x])
    ELSE Cell(P, FindChildByPage(P, x)).Key

\* C27: an Insert that returns nil and splits a leaf under a full parent P
\* splits P with the new leaf C.  The children of the left node followed by
\* those of the new node R are the old children of P and C, each once, and
\* every key below one of them is smaller than every key below the next; the
\* left node has InternalNodeLeftSplitCount keys and R has
\* InternalNodeRightSplitCount; the key that the parent of the left node
\* holds for it is the key of the cell at index InternalNodeLeftSplitCount
\* of the merged sequence, and it is the largest key below the left node.
C27_InternalSplitKeepsChildren ==
    [][\A k \in 0..MaxID :
        (isOpen /\ okCount'[k] # okCount[k]) =>
            \A c \in {findKey(Exec(pager), rootPageNum, k)} :
            \A old \in {Leaf(c.pageNum)} :
               (c.s.err = "ok" /\ old.NumCells >= LeafNodeMaxCells
                  /\ old.IsRoot = 0) =>
            \A r \in {SplitUpToParentInsert(c, rootPageNum, k, MkRow(k, "user"))} :
            \A P \in {DeserializeInternalNode(r.s.pages[r.parentPageNum])} :
               InternalNodeIsFull(P) =>
            \A C \in {r.newPageNum} :
            \A R \in {r.s.numPages} :
            \A left \in {IF P.IsRoot # 0 THEN r.s.numPages + 1
                         ELSE r.parentPageNum} :
            \A newLeft \in {Internal(left)'} :
            \A newR \in {Internal(R)'} :
            \A kids \in {ChildrenOf(newLeft) \o ChildrenOf(newR)} :
            \A keysBelow \in {[i \in 1..Len(kids) |->
                                 SubtreeKeys(kids[i], tableMaxPages)]'} :
            \A maxLeft \in {Max(SubtreeKeys(left, tableMaxPages))'} :
            \A up \in {Internal(newLeft.Parent)'} :
            \A upIndex \in {FindChildByPage(up, left)} :
               /\ Len(kids) = P.NumKeys + 2
               /\ {kids[i] : i \in 1..Len(kids)}
                     = {GetChild(P, i) : i \in 0..P.NumKeys} \cup {C}
               /\ \A i, j \in 1..Len(kids) : i # j => kids[i] # kids[j]
               /\ \A i \in 1..(Len(kids) - 1) :
                     \A x \in keysBelow[i] : \A y \in keysBelow[i + 1] : x < y
               /\ newLeft.NumKeys = InternalNodeLeftSplitCount
               /\ newR.NumKeys = InternalNodeRightSplitCount
               /\ upIndex < up.NumKeys =>
                     /\ Cell(up, upIndex).Key
                           = MergedKey(r.s, P, C, kids[InternalNodeLeftSplitCount + 1])
                     /\ Cell(up, upIndex).Key = maxLeft
      ]_vars

\* internalNodeInsert(rootPageNum, C) is called in execution state s, where
\* the root P is full, and the step ends with the pages of that call: what
\* C28 says of the pages after the step
RootSplitShape(s, C) ==
    \A P \in {DeserializeInternalNode(s.pages[rootPageNum])} :
    \A R \in {s.numPages} :
    \A left \in {s.numPages + 1} :
    \A newRoot \in {Internal(rootPageNum)'} :
    \A newLeft \in {Internal(left)'} :
    \A newR \in {Internal(R)'} :
    \A kids \in {ChildrenOf(newLeft) \o ChildrenOf(newR)} :
    \A internal \in {~IsLeafPage(rootPageNum)' /\ ~IsLeafPage(left)'
                        /\ ~IsLeafPage(R)'} :
    \A parentOf \in {[i \in 1..Len(kids) |->
                        DeserializeInternalNode(Page(kids[i])).Parent]'} :
       /\ rootPageNum = 0
       /\ internal
       /\ newRoot.IsRoot = 1
       /\ newRoot.NumKeys = 1
       /\ Cell(newRoot, 0)
             = [Child |-> left,
                Key |-> MergedKey(s, P, C, kids[InternalNodeLeftSplitCount + 1])]
       /\ newRoot.RightChild = R
       /\ newLeft.Parent = 0 /\ newLeft.IsRoot = 0
       /\ newR.Parent = 0 /\ newR.IsRoot = 0
       /\ Len(kids) = InternalNodeMaxKeys + 2
       /\ \A i \in 1..Len(kids) :
             parentOf[i] = IF i <= newLeft.NumKeys + 1 THEN left ELSE R

\* C28: an Insert that returns nil and splits the full root P, with the new
\* leaf C of a leaf split below it or with the new sibling C of a full child
\* split below it, ends with the root page an internal node with IsRoot = 1
\* and one key: its cell 0 is the page of the left node with the key of the
\* cell at index InternalNodeLeftSplitCount of the merged sequence, its
\* right child is the new node R; the left node and R are internal nodes
\* with Parent = the root page and IsRoot = 0, and every child they list has
\* the page that lists it as Parent.
C28_InternalRootSplitShape ==
    [][\A k \in AllIDs :
        (isOpen /\ okCount'[k] # okCount[k]) =>
            \A c \in {findKey(Exec(pager), rootPageNum, k)} :
            \A old \in {Leaf(c.pageNum)} :
               (c.s.err = "ok" /\ old.NumCells >= LeafNodeMaxCells
                  /\ old.IsRoot = 0) =>
            \A r \in {SplitUpToParentInsert(c, rootPageNum, k, MkRow(k, "user"))} :
            \A P \in {DeserializeInternalNode(r.s.pages[r.parentPageNum])} :
               InternalNodeIsFull(P) =>
                  IF P.IsRoot # 0
                  THEN r.parentPageNum = rootPageNum
                       /\ RootSplitShape(r.s, r.newPageNum)
                  ELSE \A r2 \in {internalNodeSplitUpToParentInsert(r.s,
                                     rootPageNum, r.parentPageNum, r.newPageNum)} :
                       (r2.parentPageNum = rootPageNum
                          /\ InternalNodeIsFull(DeserializeInternalNode(
                                                   r2.s.pages[rootPageNum]))) =>
                          RootSplitShape(r2.s, r2.newPageNum)
      ]_vars

\* The internal root has just been split: it has one key, its right child
\* is the page allocated before the last and its first child the page
\* allocated last, both internal nodes
C28_Witness ==
    /\ InsertReturnedOk
    /\ TreeLevels = 3
    /\ Internal(rootPageNum).NumKeys = 1
    /\ Internal(rootPageNum).RightChild = pager.numPages - 2
    /\ GetChild(Internal(rootPageNum), 0) = pager.numPages - 1
    /\ ~IsLeafPage(pager.numPages - 1)
    /\ ~IsLeafPage(pager.numPages - 2)
    /\ IsLeafPage(pager.numPages - 3)
    /\ Page(pager.numPages - 3).w2 = pager.numPages - 2

\* C29: an Insert that returns nil and makes the tree one level higher has
\* split the root, a leaf or an internal node.  The new right sibling, the
\* right child of the root after the step, has a page number that was not in
\* use before the step, and the page that received the old root, the first
\* child of the root after the step, has the next page number, the last one
\* in use after the step: the sibling's number is the smaller one.
C29_RightSiblingAllocatedBeforeLeftCopy ==
    [][(isOpen /\ InsertReturnedOk' /\ pager'.numPages > pager.numPages) =>
       \A n \in {pager.numPages} :
       \A levels \in {TreeLevels} :
       \A wasLeaf \in {IsLeafPage(rootPageNum)} :
       \A newLevels \in {TreeLevels'} :
       \A newRoot \in {Internal(rootPageNum)'} :
       \A last \in {pager'.numPages - 1} :
          newLevels = levels + 1 =>
             /\ newRoot.NumKeys = 1
             /\ newRoot.RightChild >= n
             /\ wasLeaf => newRoot.RightChild = n
             /\ GetChild(newRoot, 0) = newRoot.RightChild + 1
             /\ GetChild(newRoot, 0) = last
             /\ newRoot.RightChild < GetChild(newRoot, 0)
             /\ newRoot.RightChild # GetChild(newRoot, 0)
      ]_vars

\* The root has been split twice: a leaf root first (pages 1 and 2), an
\* internal root last
C29_Witness ==
    /\ InsertReturnedOk
    /\ TreeLevels = 3
    /\ Internal(rootPageNum).NumKeys = 1
    /\ Internal(rootPageNum).RightChild = pager.numPages - 2
    /\ GetChild(Internal(rootPageNum), 0) = pager.numPages - 1
    /\ IsLeafPage(1) /\ IsLeafPage(2)
    /\ Leaf(2).NextLeaf # 0

\* The pages of the tree below page p, p first, then those below each of
\* its children in child order; a page listed twice is there twice
RECURSIVE TreePages(_, _)
RECURSIVE ConcatTreePages(_, _, _)
ConcatTreePages(children, i, d) ==
    IF i > Len(children) THEN <<>>
    ELSE TreePages(children[i], d) \o ConcatTreePages(children, i + 1, d)

TreePages(p, d) ==
    IF d = 0 THEN <<>>
    ELSE IF IsLeafPage(p) THEN <<p>>
    ELSE <<p>> \o ConcatTreePages(ChildrenOf(Internal(p)), 1, d - 1)

\* C30: when an Insert has returned nil, no page number is the page of two
\* nodes: among the pages of the tree, each counted as often as a node lists
\* it, no page is there twice; and each of them is below numPages, the
\* number getUnusedPageNum hands out next, so that a page number an insert
\* takes is not in use before it and differs from the others it takes.
C30_AllocatedPagesAreDistinct ==
    InsertReturnedOk =>
       LET pages == TreePages(rootPageNum, tableMaxPages)
       IN /\ pages[1] = rootPageNum
          /\ \A i, j \in 1..Len(pages) : i # j => pages[i] # pages[j]
          /\ \A i \in 1..Len(pages) : pages[i] < getUnusedPageNum(Exec(pager))

\* An insert has split a leaf and then the root above it: it took three
\* page numbers, for the new leaf, the new sibling and the left node
C30_Witness ==
    /\ InsertReturnedOk
    /\ TreeLevels = 3
    /\ Internal(rootPageNum).NumKeys = 1
    /\ Internal(rootPageNum).RightChild = pager.numPages - 2
    /\ GetChild(Internal(rootPageNum), 0) = pager.numPages - 1
    /\ IsLeafPage(pager.numPages - 3)
    /\ Len(TreePages(rootPageNum, tableMaxPages)) = pager.numPages

\* When an Insert has returned nil, the pages of the tree are the pages
\* 0 .. numPages - 1 of the pager, each of them once
PagesInUseAreTreePages ==
    InsertReturnedOk =>
       LET pages == TreePages(rootPageNum, tableMaxPages)
       IN /\ Len(pages) = pager.numPages
          /\ {pages[i] : i \in 1..Len(pages)} = 0..(pager.numPages - 1)
          /\ \A q \in 1..(pager.numPages - 1) :
                Cardinality({i \in 1..Len(pages) : pages[i] = q}) = 1
          /\ Cardinality({i \in 1..Len(pages) : pages[i] = rootPageNum}) = 1

\* C31: after every Insert that returned nil the pages in use are the pages
\* 0 .. numPages - 1: every page number from 1 to numPages - 1 is the child
\* of one internal node and of one only and is reached from page 0, page 0
\* is no node's child; and numPages never decreases while the table is open.
C31_PagesInUseAreZeroToNumPages ==
    /\ []PagesInUseAreTreePages
    /\ [][(isOpen /\ isOpen') => pager'.numPages >= pager.numPages]_vars

\* C32: an Insert that returns nil leaves the pager with the buffers it had:
\* for every page number that had a buffer before the call, the buffer the
\* pager has for it after the call is that buffer.
C32_PagerKeepsItsBuffers ==
    [][\A k \in 0..MaxID :
        (isOpen /\ okCount'[k] # okCount[k]) =>
            \A s \in {TableInsert(Exec(pager), rootPageNum, MkRow(k, "user"))} :
               /\ s.err = "ok"
               /\ s.pages = pager'.pages
               /\ \A p \in DOMAIN pager.pages : p \notin s.replaced
      ]_vars

----------------------------------------------------------------------------
(* The start of a scan *)

\* C33: TableStart gives a cursor on the leftmost leaf at cell 0, with
\* endOfTable set exactly when the table holds no row, and SelectAll on a
\* table that holds no row returns the empty sequence
C33_TableStartIsLeftmostCellZero ==
    isOpen =>
       \A c \in {TableStart(Exec(pager), rootPageNum)} :
          /\ c.s.err = "ok"
          /\ c.pageNum = LeftmostLeaf(rootPageNum, pager.numPages)
          /\ IsLeafPage(c.pageNum)
          /\ c.cellNum = 0
          /\ c.endOfTable <=> (InsertedKeys = {})
          /\ (InsertedKeys = {}) =>
                \A r \in {SelectAll(Exec(pager), rootPageNum)} :
                   r.s.err = "ok" /\ r.rows = <<>>

\* A scan starts on a table of more than one leaf whose smallest key is 0
C33_Witness_Start ==
    /\ isOpen
    /\ TreeLevels >= 2
    /\ okCount[0] > 0
    /\ TableStart(Exec(pager), rootPageNum).pageNum = LeftmostLeaf(rootPageNum, pager.numPages)
    /\ ~TableStart(Exec(pager), rootPageNum).endOfTable

----------------------------------------------------------------------------
(* The end of a scan *)

\* The leaf pages a scan goes through: NextLeaf from the leftmost leaf on
ScanChain == LeafChain(LeftmostLeaf(rootPageNum, pager.numPages), pager.numPages + 1)

\* The number of Insert calls that returned nil
StoredRows == Cardinality(InsertedKeys) + DupAccepted

\* C34: after successful inserts a scan from TableStart by Advance reaches
\* endOfTable after as many Value reads as rows were stored: no leaf comes
\* twice in the chain of NextLeaf, and every leaf Advance moves to is an
\* allocated leaf page that holds cells
C34_ScanEndsAfterStoredRows ==
    isOpen =>
       \A r \in {SelectAll(Exec(pager), rootPageNum)} :
          /\ r.s.err = "ok"
          /\ Len(r.rows) = StoredRows
          /\ Len(ScanChain) <= pager.numPages
          /\ \A i, j \in 1..Len(ScanChain) : ScanChain[i] = ScanChain[j] => i = j
          /\ Leaf(ScanChain[Len(ScanChain)]).NextLeaf = 0
          /\ \A i \in 2..Len(ScanChain) :
                /\ ScanChain[i] < pager.numPages
                /\ IsLeafPage(ScanChain[i])
                /\ Leaf(ScanChain[i]).NumCells > 0

\* A scan went through three leaves or more and read every stored row
C34_Witness_ScanOverLeaves ==
    /\ SelectReturned
    /\ Len(ScanChain) >= 3
    /\ Len(result.rows) = StoredRows
    /\ Len(result.rows) >= 5

----------------------------------------------------------------------------
(* The calls of internalNodeInsert that one Insert makes *)

\* The calls internalNodeInsert(parentPageNum, childPageNum) made from the
\* call with these arguments on, at most fuel of them; splitPageNum is the
\* node whose split makes the call
RECURSIVE ParentInsertCalls(_, _, _, _, _, _)
ParentInsertCalls(s, root, splitPageNum, parentPageNum, childPageNum, fuel) ==
    IF fuel = 0 THEN <<>> ELSE
    LET call == [splitPageNum |-> splitPageNum, parentPageNum |-> parentPageNum,
                 childPageNum |-> childPageNum]
    IN
    With([s1 \in {getPage(s, parentPageNum)} |->
    IF s1.err # "ok" THEN <<call>>
    ELSE IF ~InternalNodeIsFull(DeserializeInternalNode(s1.pages[parentPageNum]))
    THEN <<call>> ELSE
    With([r \in {internalNodeSplitUpToParentInsert(s1, root, parentPageNum, childPageNum)} |->
    IF r.insert
    THEN <<call>> \o ParentInsertCalls(r.s, root, parentPageNum, r.parentPageNum,
                                       r.newPageNum, fuel - 1)
    ELSE <<call>>
    ])])

\* The calls of internalNodeInsert made by Table.Insert of row
InsertCalls(s, root, row, fuel) ==
    With([s1 \in {getPage(s, root)} |->
    IF s1.err # "ok" THEN <<>> ELSE
    With([cursor \in {findKey(s1, root, KeyOf(row.ID))} |->
    IF cursor.s.err # "ok" THEN <<>> ELSE
    With([s2 \in {getPage(cursor.s, cursor.pageNum)} |->
    IF s2.err # "ok" THEN <<>> ELSE
    LET cursorNode == DeserializeLeafNode(s2.pages[cursor.pageNum])
    IN IF /\ cursor.cellNum < cursorNode.NumCells
          /\ Cell(cursorNode, cursor.cellNum).Key = KeyOf(row.ID)
       THEN <<>>
       ELSE IF cursorNode.NumCells < LeafNodeMaxCells THEN <<>> ELSE
    With([r \in {SplitUpToParentInsert([cursor EXCEPT !.s = s2], root, KeyOf(row.ID), row)} |->
    IF r.insert
    THEN ParentInsertCalls(r.s, root, cursor.pageNum, r.parentPageNum, r.newPageNum, fuel)
    ELSE <<>>
    ])])])])

\* The number of Parent steps from page p to the root, at most d
RECURSIVE DepthOf(_, _)
DepthOf(p, d) ==
    IF d = 0 \/ p = rootPageNum THEN 0
    ELSE 1 + DepthOf(IF IsLeafPage(p) THEN Leaf(p).Parent ELSE Internal(p).Parent, d - 1)

\* C35: an Insert returns after finitely many calls of internalNodeInsert:
\* each call is made on the parent of the node that was just split, one
\* level nearer to the root than the call before, and no call follows the
\* split of the root
C35_SplitsMoveTowardRoot ==
    [][\A k \in 0..MaxID :
        (isOpen /\ okCount'[k] # okCount[k]) =>
           \A calls \in {InsertCalls(Exec(pager), rootPageNum, MkRow(k, "user"),
                                     pager.numPages + 2)} :
              /\ Len(calls) < pager.numPages + 2
              /\ Len(calls) < TreeLevels
              /\ \A i \in 1..Len(calls) :
                    /\ calls[i].splitPageNum # rootPageNum
                    /\ ~IsLeafPage(calls[i].parentPageNum)
                    /\ \E j \in 1..Len(ChildrenOf(Internal(calls[i].parentPageNum))) :
                          ChildrenOf(Internal(calls[i].parentPageNum))[j] = calls[i].splitPageNum
                    /\ DepthOf(calls[i].parentPageNum, pager.numPages)
                          = DepthOf(calls[i].splitPageNum, pager.numPages) - 1
                    /\ i > 1 => calls[i].splitPageNum = calls[i - 1].parentPageNum
                    /\ i = 1 => IsLeafPage(calls[i].splitPageNum)
      ]_vars

\* An Insert has split a leaf and then the parent of that leaf, which was
\* not the root: the last two pages are the new leaf and the new sibling of
\* its parent, both children of nodes below the root
C35_Witness_TwoCalls ==
    /\ InsertReturnedOk
    /\ TreeLevels = 3
    /\ pager.numPages >= 3
    /\ IsLeafPage(pager.numPages - 2)
    /\ ~IsLeafPage(pager.numPages - 1)
    /\ Internal(pager.numPages - 1).Parent = rootPageNum
    /\ Internal(rootPageNum).NumKeys >= 2

----------------------------------------------------------------------------
(* The page limit *)

\* C36: in every reachable state, the states left by inserts that have
\* failed for lack of pages included, numPages is at most tableMaxPages, so
\* that Close reads no slot of pages at or above tableMaxPages
C36_NumPagesWithinMaxPages ==
    isOpen => pager.numPages <= tableMaxPages

----------------------------------------------------------------------------
(* The height of the tree *)

\* The depths at which the leaves below page p are, p being at depth n
RECURSIVE LeafDepths(_, _, _)
LeafDepths(p, n, d) ==
    IF d = 0 THEN {}
    ELSE IF IsLeafPage(p) THEN {n}
    ELSE UNION {LeafDepths(ChildrenOf(Internal(p))[i], n + 1, d - 1) :
                   i \in 1..(Internal(p).NumKeys + 1)}

\* The root holds all the cells, or all the keys, it can
RootIsFull ==
    IF IsLeafPage(rootPageNum)
    THEN Leaf(rootPageNum).NumCells >= LeafNodeMaxCells
    ELSE InternalNodeIsFull(Internal(rootPageNum))

AllLeavesAtSameDepth ==
    InsertReturnedOk =>
        LeafDepths(rootPageNum, 0, pager.numPages) = {TreeLevels - 1}

\* C37: after every successful insert all the leaves are at the same depth,
\* and the height of the tree changes only when the root is split: it then
\* grows by one level, under a root with two children
C37_LeavesAtSameDepth ==
    /\ []AllLeavesAtSameDepth
    /\ [][(isOpen /\ isOpen' /\ TreeLevels' # TreeLevels) =>
             /\ TreeLevels' = TreeLevels + 1
             /\ RootIsFull
             /\ ~IsLeafPage(rootPageNum)'
             /\ Internal(rootPageNum)'.NumKeys = 1
         ]_vars

\* The tree has three levels and leaves below several children of the root
C37_Witness_ThreeLevels ==
    /\ InsertReturnedOk
    /\ TreeLevels = 3
    /\ Internal(rootPageNum).NumKeys >= 2
    /\ LeafDepths(rootPageNum, 0, pager.numPages) = {2}

----------------------------------------------------------------------------
(* How full the nodes are *)

Min(a, b) == IF a < b THEN a ELSE b

\* C38: after every successful insert every leaf of the tree holds at most
\* LeafNodeMaxCells cells, every internal node between 1 and
\* InternalNodeMaxKeys keys, and every leaf but a root leaf at least
\* min(LeafNodeLeftSplitCount, LeafNodeRightSplitCount) cells
C38_NodeOccupancy ==
    InsertReturnedOk =>
       LET leaves == LeavesInOrder(rootPageNum, pager.numPages)
       IN /\ \A i \in 1..Len(leaves) :
                /\ Leaf(leaves[i]).NumCells <= LeafNodeMaxCells
                /\ Len(Leaf(leaves[i]).Cells) = Leaf(leaves[i]).NumCells
                /\ leaves[i] # rootPageNum =>
                      Leaf(leaves[i]).NumCells >=
                         Min(LeafNodeLeftSplitCount, LeafNodeRightSplitCount)
          /\ \A p \in InternalPages(rootPageNum, pager.numPages) :
                /\ Internal(p).NumKeys >= 1
                /\ Internal(p).NumKeys <= InternalNodeMaxKeys

\* The tree has a full leaf, a leaf with the fewest cells a split leaves,
\* a node with one key and a node with InternalNodeMaxKeys keys
C38_Witness_FullAndHalfFull ==
    /\ InsertReturnedOk
    /\ \E p, q \in InternalPages(rootPageNum, pager.numPages) :
          /\ Internal(p).NumKeys = 1
          /\ Internal(q).NumKeys = InternalNodeMaxKeys
    /\ LET leaves == LeavesInOrder(rootPageNum, pager.numPages)
       IN \E i, j \in 1..Len(leaves) :
             /\ Leaf(leaves[i]).NumCells = LeafNodeMaxCells
             /\ Leaf(leaves[j]).NumCells = Min(LeafNodeLeftSplitCount, LeafNodeRightSplitCount)

----------------------------------------------------------------------------
(* Fatal aborts *)

\* C39: below the page limit no Insert and no SelectAll ends in a panic:
\* FindChildByPage finds the node that was split, GetMaxKey is not called on
\* a node without cells, and no child index above NumKeys is read
C39_NoFatalAbort ==
    /\ result.op \in {"insert", "select"} =>
          /\ isOpen
          /\ result.err \notin {"panic", "stale", "diverge"}
    /\ isOpen =>
          /\ \A p \in InternalPages(rootPageNum, pager.numPages) :
                \A i \in 1..(Internal(p).NumKeys + 1) :
                   LET child == ChildrenOf(Internal(p))[i]
                   IN /\ ~GetMaxKeyPanics(Page(child))
                      /\ ~FindChildByPagePanics(Internal(p), child)
                      /\ ~GetChildPanics(Internal(p), i - 1)
                      /\ (IF IsLeafPage(child) THEN Leaf(child).Parent
                          ELSE Internal(child).Parent) = p

\* A scan has returned the rows of a tree of three levels in which a node
\* below the root was split
C39_Witness_ScanAfterSplits ==
    /\ SelectReturned
    /\ TreeLevels = 3
    /\ Internal(rootPageNum).NumKeys >= 2
    /\ Len(result.rows) >= MaxID

----------------------------------------------------------------------------
(* The page numbers stored in nodes *)

\* Page q is below tableMaxPages and a node was written to it
HoldsNode(q) ==
    /\ q < tableMaxPages
    /\ q \in DOMAIN pager.pages \/ q < Len(file)
    /\ Page(q) # ZeroPage

\* C40: in every reachable state, the state left by an Insert that failed
\* with page number out of bounds included, every page number in a Child,
\* RightChild, Parent or non-zero NextLeaf field names a page below
\* tableMaxPages to which a node was written
C40_StoredPageNumbersNameNodes ==
    isOpen =>
       \A p \in DOMAIN pager.pages :
          IF IsLeafPage(p)
          THEN /\ HoldsNode(Leaf(p).Parent)
               /\ Leaf(p).NextLeaf # 0 => HoldsNode(Leaf(p).NextLeaf)
          ELSE /\ HoldsNode(Internal(p).Parent)
               /\ \A i \in 1..(Internal(p).NumKeys + 1) :
                     HoldsNode(ChildrenOf(Internal(p))[i])
====
